---- MODULE Spec2Model ----
(***************************************************************************)
(* A model of the news crawl-and-persist pipeline: the bounded-retry GET   *)
(* of BaseCrawler, the crawler run and its upsert-by-url save, the market  *)
(* data crawler, the Finnhub importer, the orchestrator of main_crawler,   *)
(* the maintenance sweep of db_maintenance, the model fallback of          *)
(* llm_utils and the analysis stage of news_analyzer.  Each part has its   *)
(* own specification (SpecFetch, SpecSweep, SpecOrch, SpecStore,           *)
(* SpecAnalysis, SpecExtract, SpecQuery, SpecTwice, SpecRetention,         *)
(* SpecAlerts) over the variables it uses; the variables of the other      *)
(* parts stay at their quiescent values.                                   *)
(***************************************************************************)
EXTENDS Integers, Sequences, FiniteSets, TLC

\* A field a document does not carry / Python's None.
NoField == "NoField"
None == "None"
\* A timestamp or number field a document does not carry.
NoTime == 0 - 1

(***************************************************************************)
(* Bounds of the model.                                                    *)
(***************************************************************************)
\* Largest value of the `retries` argument of _make_request that is explored.
MaxRetries == 3
\* Number of crawlers one orchestrator invocation runs.
NumAdapters == 3
\* Largest number of new list items one adapter has in the orchestrator's view.
MaxBodies == 2
\* Largest number of rows the market data page returns.
MaxRecords == 3
\* Number of documents the storage holds when a maintenance sweep is examined.
MaxSweepDocs == 2
\* Number of sweeps run one after the other.
MaxSweeps == 2
\* Number of storage errors one sweep meets.
MaxSweepFaults == 1
\* The clock (in days) runs from FirstDay to LastDay.
FirstDay == 2
LastDay == 3
\* Largest --days argument of the maintenance CLI that is explored.
MaxRetentionDays == 2
\* Number of crawler runs / Finnhub imports that work on the storage at once.
NumRuns == 2
\* Largest number of items a news list (or a Finnhub response) holds.
MaxList == 2
\* Largest --limit argument of the analyzer CLI that is explored.
MaxLimit == 2
\* Largest --days argument of the analyzer CLI that is explored.
MaxAgeDays == 2
\* Number of documents the storage holds when the analysis stage is examined.
MaxStoredDocs == 2
\* Largest number of lines of a text given to extract_analysis_details.
MaxLines == 6
\* The largest number of models in models_config.
MaxModels == 3
\* The digests sent before the storage stops failing under save_analysis.
MaxDigests == 2

(***************************************************************************)
(* Program constants.                                                      *)
(***************************************************************************)
\* BaseCrawler.retry_delay, in seconds.
DefaultRetryDelay == 5
\* JrjCrawler overrides retry_delay.
JrjRetryDelay == 60

VARIABLES
    \* ---- _make_request / _make_raw_request ----
    retries,         \* the argument `retries` (the spec's max_attempts)
    raw,             \* TRUE for _make_raw_request, FALSE for _make_request
    retry_delay,     \* self.retry_delay
    attempt,         \* the loop variable of `for attempt in range(retries)`
    last_exception,  \* the local last_exception
    fpc,             \* position: "get", "sleep", "broken", "done"
    fresult,         \* the value returned, NoField until the call returns
    hist,            \* the outcome of every GET made so far, in order
    sleepLog,        \* for every asyncio.sleep made: the number of the GET it followed
    elapsed,         \* seconds slept so far
    \* ---- the storage backend and the clock ----
    store,           \* "db/collection" -> the set of documents it holds
    now,             \* datetime.now(), in days
    \* ---- clean_old_articles ----
    dry_run,             \* the argument dry_run
    retention_days,      \* the argument retention_days
    cutoff_date,         \* the local cutoff_date
    total_deleted_count, \* the local total_deleted_count
    sweepIdx,            \* position of the loop in COLLECTIONS_TO_CLEAN
    swpc,                \* "idle", "loop", "done"
    reported,            \* collection -> the count the sweep logged for it
    errored,             \* the collections whose processing raised
    deleted,             \* the documents this sweep deleted
    sweepsRun,           \* the number of sweeps started
    startedAt,           \* the clock when this sweep started
    startStore,          \* the storage when this sweep started
    before,              \* what the previous sweep saw and reported
    \* ---- main_crawler: main() and one run_crawler task per adapter ----
    mainpc,          \* main(): "gather", "completed", "raised", "exited"
    opc,             \* adapter -> position of its run_crawler task
    todo,            \* adapter -> number of list items whose body it fetches
    bodies,          \* adapter -> number of body fetches that have returned
    fetched,         \* adapter -> number of articles in articles_to_save
    persisted,       \* adapter -> number of articles save_articles wrote
    raisedAt,        \* adapter -> the step that raised: "none", "construct", "run", "close"
    cancelled,       \* adapter -> its task was cancelled when main() exited
    olimit,          \* args.limit of main_crawler
    closes,          \* adapter -> its close() calls in order: "in_run" or "after_run"
    \* ---- BaseCrawler.run / fetch_and_save_finnhub_news, one per slot ----
    nextId,          \* the _id the storage gives to the next inserted document
    runs,            \* slot -> the locals of the run or import in that slot
    seen,            \* slot -> what the run's existence checks found, what it fetched
    wrote,           \* slot -> the articles its bulk_write applied
    lastWritten,     \* url -> the article of the latest save_articles write to it
    \* ---- news_analyzer: run_analysis_pipeline_for_sources ----
    apc,             \* "new", "idle", "analyze", "save", "alerts"
    alimit,          \* the --limit argument
    amax_age,        \* the --days argument
    acreds,          \* which credentials the environment configures
    allm,            \* the texts the configured models answer with
    aclients,        \* TRUE iff studio_client or vertex_client is not None
    aemail,          \* TRUE iff email_service is not None
    asrc,            \* the source (db/collection) being processed
    batch,           \* unanalyzed_news
    results,         \* analysis_results
    emails,          \* the calls of email_service.send_email, in order
    \* ---- news_analyzer: extract_analysis_details, called on its own ----
    epc,             \* "idle", "called", "returned"
    etext,           \* analysis_text
    edetails,        \* the dictionary returned
    \* ---- llm_utils: send_query_to_first_available_model, called on its own ----
    qpc,             \* "idle", "loop", "returned"
    models_config,   \* the argument models_config, in its order
    studio_client,   \* TRUE iff the argument studio_client is not None
    vertex_client,   \* TRUE iff the argument vertex_client is not None
    model_index,     \* position of `for model_name_key, model_details in ...`
    calls,           \* the calls of call_model_via_genai_client made, in order
    llm_output       \* the value returned

fetchVars == <<retries, raw, retry_delay, attempt, last_exception, fpc, fresult,
               hist, sleepLog, elapsed>>

sweepVars == <<dry_run, retention_days, cutoff_date, total_deleted_count, sweepIdx,
               swpc, reported, errored, deleted, sweepsRun, startedAt, startStore,
               before>>

orchVars == <<mainpc, opc, todo, bodies, fetched, persisted, raisedAt, cancelled, olimit,
              closes>>

runVars == <<nextId, runs, seen, wrote, lastWritten>>

\* What the command line, the environment and the constructor fix.
anaCfg == <<alimit, amax_age, acreds, allm, aclients, aemail>>

extVars == <<epc, etext, edetails>>

qryVars == <<qpc, models_config, studio_client, vertex_client, model_index, calls,
             llm_output>>

anaVars == <<apc, anaCfg, asrc, batch, results, emails, extVars, qryVars>>

vars == <<fetchVars, store, now, sweepVars, orchVars, runVars, anaVars>>

(***************************************************************************)
(* The storage backend: MongoDB collections of documents.                  *)
(***************************************************************************)
\* COLLECTIONS_TO_CLEAN of db_maintenance, each pair written "db/collection".
COLLECTIONS_TO_CLEAN ==
    << "Finnhub_News/market_news",
       "Sina_Stock/sina_news_company",
       "Jrj_Stock/jrj_news_company",
       "Cnstock_Stock/cnstock_news_company",
       "Stcn_Stock/stcn_news_company",
       "eastmoney/eastmoney_news_company",
       "dragon_tiger_list/eastmoney_market_data" >>

\* The collection of SinaCrawler, which stands for the BaseCrawler subclasses.
CrawlerCollection == "Sina_Stock/sina_news_roll"

\* The collection of the Finnhub importer (DB_NAME, COLLECTION_NAME).
FinnhubCollection == "Finnhub_News/market_news"

\* The collection EastmoneyMarketCrawler writes to: self.client.stock_news,
\* then self.db.dragon_tiger_list.
MarketCollection == "stock_news/dragon_tiger_list"

Range(f) == {f[i] : i \in DOMAIN f}

Collections ==
    Range(COLLECTIONS_TO_CLEAN) \cup {CrawlerCollection, FinnhubCollection, MarketCollection}

\* A line of the text a model returns: a label with its number or its text.
Line(kind, value, text) == [kind |-> kind, value |-> value, text |-> text]

\* The value of analysis_summary: the text after the label on its line, and
\* the lines that follow it in the response.
Summary(text, trailing) == [text |-> text, trailing |-> trailing]

\* The analysis_structured of a document that has none.
NoDetails ==
    [ importance_score |-> NoTime, sentiment_score |-> NoTime, sectors |-> <<>>,
      analysis_summary |-> Summary(NoField, <<>>) ]

\* A stored document.  Every field is present in the record; a field the
\* document does not carry holds NoField (NoTime for a number; analyzed is
\* read by `{"$ne": True}`, for which an absent field is FALSE).  title also stands for the other
\* fields copied from the same list item (source_page_url, published_date).
BlankDoc ==
    [ id |-> 0, url |-> NoField, title |-> NoField, content |-> NoField,
      source |-> NoField, fetched_at |-> NoTime, analyzed |-> FALSE,
      analysis_raw |-> NoField, analysis_structured |-> NoDetails,
      analysis_error |-> NoField, analyzed_at |-> NoTime,
      finnhub_id |-> NoTime, date |-> NoTime ]

(***************************************************************************)
(* The quiescent values of each part's variables, for the specifications   *)
(* of the other parts.                                                     *)
(***************************************************************************)
\* last_exception = None
NoException == [kind |-> "none", status |-> 0]

\* The quiescent values of the fetch variables, for the other specifications.
FetchIdle ==
    /\ retries = 0
    /\ raw = FALSE
    /\ retry_delay = DefaultRetryDelay
    /\ attempt = 0
    /\ last_exception = NoException
    /\ fpc = "done"
    /\ fresult = None
    /\ hist = <<>>
    /\ sleepLog = <<>>
    /\ elapsed = 0

StoreEmpty ==
    /\ store = [c \in Collections |-> {}]
    /\ now = FirstDay

NoSweepYet == [ran |-> FALSE]

SweepIdle ==
    /\ dry_run = TRUE
    /\ retention_days = 0
    /\ cutoff_date = 0
    /\ total_deleted_count = 0
    /\ sweepIdx = 0
    /\ swpc = "idle"
    /\ reported = [c \in Collections |-> NoTime]
    /\ errored = {}
    /\ deleted = {}
    /\ sweepsRun = 0
    /\ startedAt = 0
    /\ startStore = [c \in Collections |-> {}]
    /\ before = NoSweepYet

\* The crawlers of one orchestrator invocation (crawlers_to_run).
Adapters == 1..NumAdapters

OrchIdle ==
    /\ mainpc = "exited"
    /\ opc = [a \in Adapters |-> "done"]
    /\ todo = [a \in Adapters |-> 0]
    /\ bodies = [a \in Adapters |-> 0]
    /\ fetched = [a \in Adapters |-> 0]
    /\ persisted = [a \in Adapters |-> 0]
    /\ raisedAt = [a \in Adapters |-> "none"]
    /\ cancelled = [a \in Adapters |-> FALSE]
    /\ olimit = 0
    /\ closes = [a \in Adapters |-> <<>>]

\* The slots in which a crawler run or a Finnhub import works on the storage;
\* different slots may be different processes.
Runs == 1..NumRuns

\* The urls the news lists name.
Urls == {"u1", "u2"}

\* The locals of a run that has not started; `after` holds the slots whose
\* runs had ended when this run started.
RunIdle ==
    [ kind |-> "none", pc |-> "idle", news_items |-> <<>>, idx |-> 0,
      articles_to_save |-> <<>>, processed_urls |-> {}, after |-> {} ]

\* A run that has checked and fetched nothing yet.
SeenNothing ==
    [ absent |-> {}, stored |-> {}, fetched |-> {}, fetchedStored |-> {},
      gotBody |-> {}, submitted |-> {} ]

\* No save_articles call has written this url yet.
NoArticle ==
    [ url |-> NoField, title |-> NoField, content |-> NoField, source |-> NoField,
      fetched_at |-> NoTime, analyzed |-> FALSE ]

RunsIdle ==
    /\ nextId = 1
    /\ runs = [r \in Runs |-> RunIdle]
    /\ seen = [r \in Runs |-> SeenNothing]
    /\ wrote = [r \in Runs |-> {}]
    /\ lastWritten = [u \in Urls |-> NoArticle]

ExtractIdle ==
    /\ epc = "idle"
    /\ etext = <<>>
    /\ edetails = NoDetails

\* llm_output before the function has returned.
NotReturned == [returned |-> FALSE, key |-> NoField, text |-> NoField]

QueryIdle ==
    /\ qpc = "idle"
    /\ models_config = <<>>
    /\ studio_client = FALSE
    /\ vertex_client = FALSE
    /\ model_index = 0
    /\ calls = <<>>
    /\ llm_output = NotReturned

AnalyzerIdle ==
    /\ ExtractIdle
    /\ QueryIdle
    /\ apc = "idle"
    /\ alimit = 0
    /\ amax_age = 0
    /\ acreds = [llm |-> FALSE, finance |-> FALSE, email |-> FALSE]
    /\ allm = {}
    /\ aclients = FALSE
    /\ aemail = FALSE
    /\ asrc = NoField
    /\ batch = <<>>
    /\ results = <<>>
    /\ emails = <<>>

(***************************************************************************)
(* Maintenance Sweep: clean_old_articles of db_maintenance.                *)
(***************************************************************************)
\* A variant of the query that also matches a document dated at the cutoff.
MatchesQueryInclusive(d, cutoff) == d.date # NoTime /\ d.date <= cutoff

\* query = {"date": {"$lt": cutoff_date}}: the document carries a `date`
\* field and it is before the cutoff.
MatchesQuery(d, cutoff) == d.date # NoTime /\ d.date < cutoff

\* collection.count_documents(query)
CountDocuments(docs, cutoff) == Cardinality({d \in docs : MatchesQuery(d, cutoff)})

\* collection.delete_many(query): the documents left.
DeleteMany(docs, cutoff) == {d \in docs : ~MatchesQuery(d, cutoff)}

\* A variant of the loop body that deletes in a dry run too.
AfterSweepAlwaysDeleting(docs, count, dry, cutoff) ==
    IF count = 0 THEN docs ELSE DeleteMany(docs, cutoff)

\* What the loop body leaves of a collection it processed without error:
\* `continue` on a zero count, only a log line in a dry run, delete_many else.
AfterSweep(docs, count, dry, cutoff) ==
    IF count = 0 \/ dry THEN docs ELSE DeleteMany(docs, cutoff)

\* The places a stored document can be in when the sweep is examined: a
\* collection of the sweep's list and a `date` (or none, as for the documents
\* the crawlers write, which carry fetched_at instead).
SweepDates == {NoTime} \cup (0..(FirstDay - 1))
\* The documents are put in the first, a middle and the last collection of the list.
SweepPositions ==
    {1, (Len(COLLECTIONS_TO_CLEAN) + 1) \div 2, Len(COLLECTIONS_TO_CLEAN)}
SweepSlots == {<<i, d>> : i \in SweepPositions, d \in SweepDates}

SlotLeq(a, b) ==
    \/ a[1] < b[1]
    \/ a[1] = b[1] /\ a[2] <= b[2]

\* Placements of up to MaxSweepDocs documents, document k at placement k.
\* Listing them in slot order leaves out only renumberings of the same content.
SweepPlacements ==
    {p \in UNION {[1..n -> SweepSlots] : n \in 0..MaxSweepDocs} :
        \A k \in DOMAIN p : k > 1 => SlotLeq(p[k - 1], p[k])}

PlacedDoc(p, k) ==
    [BlankDoc EXCEPT !.id = k, !.url = "legacy" \o ToString(k), !.date = p[k][2]]

InitSweep ==
    /\ \E p \in SweepPlacements :
         store = [c \in Collections |->
                    {PlacedDoc(p, k) : k \in {j \in DOMAIN p : COLLECTIONS_TO_CLEAN[p[j][1]] = c}}]
    /\ now = FirstDay
    /\ SweepIdle
    /\ FetchIdle
    /\ OrchIdle
    /\ RunsIdle
    /\ AnalyzerIdle

\* The summary of the sweep that just finished.
SweepSummary ==
    [ran |-> TRUE, dry_run |-> dry_run, retention_days |-> retention_days,
     at |-> startedAt, total |-> total_deleted_count, errored |-> errored, store |-> store]

\* clean_old_articles(mongo_uri, retention_days, dry_run) is called: connect,
\* compute the cutoff from the clock, zero the total.  A further sweep is run
\* after a dry run that met no error (the operator's dry run before the
\* destructive invocation).
SweepStart ==
    /\ \/ swpc = "idle"
       \/ swpc = "done" /\ dry_run /\ errored = {}
    /\ sweepsRun < MaxSweeps
    /\ \E days \in 1..MaxRetentionDays, dry \in BOOLEAN :
        /\ retention_days' = days
        /\ dry_run' = dry
        /\ cutoff_date' = now - days
    /\ before' = IF swpc = "done" THEN SweepSummary ELSE before
    /\ total_deleted_count' = 0
    /\ sweepIdx' = 1
    /\ swpc' = "loop"
    /\ reported' = [c \in Collections |-> NoTime]
    /\ errored' = {}
    /\ deleted' = {}
    /\ sweepsRun' = sweepsRun + 1
    /\ startedAt' = now
    /\ startStore' = store
    /\ UNCHANGED <<store, now, fetchVars, orchVars, runVars, anaVars>>

\* A loop that an exception in its body ends.
LoopEndsOnError(idx, raised) ==
    IF raised THEN Len(COLLECTIONS_TO_CLEAN) + 1 ELSE idx + 1

\* Where the for loop goes after a pass of its body: the try/except lies
\* inside the body, so the next collection follows whether or not the pass
\* raised.
NextCollection(idx, raised) == idx + 1

\* One pass of the loop body over COLLECTIONS_TO_CLEAN[sweepIdx]: count, then
\* log or delete, then add to the total; an exception raised by the count or
\* by the delete is caught and logged, and the loop goes on.
SweepCollection ==
    /\ swpc = "loop"
    /\ sweepIdx <= Len(COLLECTIONS_TO_CLEAN)
    /\ LET c == COLLECTIONS_TO_CLEAN[sweepIdx]
           count == CountDocuments(store[c], cutoff_date)
       IN  \/ \* no error
              /\ store' = [store EXCEPT ![c] = AfterSweep(store[c], count, dry_run, cutoff_date)]
              /\ deleted' = deleted \cup (store[c] \ store'[c])
              /\ reported' = [reported EXCEPT ![c] = count]
              /\ total_deleted_count' = total_deleted_count + count
              /\ sweepIdx' = NextCollection(sweepIdx, FALSE)
              /\ UNCHANGED errored
           \/ \* count_documents raises
              /\ Cardinality(errored) < MaxSweepFaults
              /\ errored' = errored \cup {c}
              /\ sweepIdx' = NextCollection(sweepIdx, TRUE)
              /\ UNCHANGED <<store, deleted, reported, total_deleted_count>>
           \/ \* delete_many raises, after the count was logged
              /\ Cardinality(errored) < MaxSweepFaults
              /\ ~dry_run
              /\ count > 0
              /\ errored' = errored \cup {c}
              /\ reported' = [reported EXCEPT ![c] = count]
              /\ sweepIdx' = NextCollection(sweepIdx, TRUE)
              /\ UNCHANGED <<store, deleted, total_deleted_count>>
    /\ UNCHANGED <<dry_run, retention_days, cutoff_date, swpc, sweepsRun, startedAt,
                   startStore, before>>
    /\ UNCHANGED <<now, fetchVars, orchVars, runVars, anaVars>>

\* The loop is over: log the total and close the client.
SweepFinish ==
    /\ swpc = "loop"
    /\ sweepIdx > Len(COLLECTIONS_TO_CLEAN)
    /\ swpc' = "done"
    /\ UNCHANGED <<dry_run, retention_days, cutoff_date, total_deleted_count, sweepIdx,
                   reported, errored, deleted, sweepsRun, startedAt, startStore, before>>
    /\ UNCHANGED <<store, now, fetchVars, orchVars, runVars, anaVars>>

\* A day passes between two sweeps.
SweepTick ==
    /\ swpc = "done"
    /\ now < LastDay
    /\ now' = now + 1
    /\ UNCHANGED <<store, sweepVars, fetchVars, orchVars, runVars, anaVars>>

NextSweep ==
    \/ SweepStart
    \/ SweepCollection
    \/ SweepFinish
    \/ SweepTick

SpecSweep == InitSweep /\ [][NextSweep]_vars

(***************************************************************************)
(* Orchestrator: main() and run_crawler of main_crawler.  Every adapter is *)
(* a task of one event loop; a step of a task runs from one await to the   *)
(* next.  The run of an adapter is seen here by its await points: the list *)
(* fetch and one body fetch per new list item; the save that follows the   *)
(* last body fetch awaits nothing and belongs to that step.                *)
(***************************************************************************)
\* tasks = [run_crawler(cls, args.limit) ...]; await asyncio.gather(*tasks)
InitOrch ==
    /\ mainpc = "gather"
    /\ opc = [a \in Adapters |-> "pending"]
    /\ todo = [a \in Adapters |-> 0]
    /\ bodies = [a \in Adapters |-> 0]
    /\ fetched = [a \in Adapters |-> 0]
    /\ persisted = [a \in Adapters |-> 0]
    /\ raisedAt = [a \in Adapters |-> "none"]
    /\ cancelled = [a \in Adapters |-> FALSE]
    /\ olimit \in 0..MaxBodies
    /\ closes = [a \in Adapters |-> <<>>]
    /\ StoreEmpty
    /\ SweepIdle
    /\ FetchIdle
    /\ RunsIdle
    /\ AnalyzerIdle

\* The event loop runs one task at a time, and a task keeps it until its next
\* await: while a task sits in a synchronous call (pymongo's find_one and
\* bulk_write in BaseCrawler), no other task and no callback of main() runs.
LoopRuns == \A b \in Adapters : opc[b] # "blocked"

\* The task starts: crawler_instance = crawler_class().  A constructor that
\* raises is caught by `except Exception`; crawler_instance is still None, so
\* the finally clause closes nothing and run_crawler returns.
OrchConstruct(a) ==
    /\ LoopRuns
    /\ opc[a] = "pending"
    /\ \/ /\ opc' = [opc EXCEPT ![a] = "list"]
          /\ UNCHANGED raisedAt
       \/ /\ opc' = [opc EXCEPT ![a] = "done"]
          /\ raisedAt' = [raisedAt EXCEPT ![a] = "construct"]
    /\ UNCHANGED <<mainpc, todo, bodies, fetched, persisted, cancelled, olimit, closes>>
    /\ UNCHANGED <<store, now, fetchVars, sweepVars, runVars, anaVars>>

\* AVAILABLE_CRAWLERS: the article crawlers, which derive from BaseCrawler,
\* and the market data crawler, listed last.
CrawlerClass(a) ==
    IF a = NumAdapters THEN "EastmoneyMarketCrawler" ELSE "BaseCrawler"

\* A list that the limit does not cut.
UncutListLengths(limit) == 0..MaxBodies

\* How many items fetch_news_list(limit) can return: every article crawler
\* ends with `return news_items[:limit]`.
ListLengths(limit) == 0..limit

\* `news_items = await self.fetch_news_list(limit=limit)` returns with n items
\* that are not stored yet, or raises.  BaseCrawler.run catches the exception
\* itself (`except Exception`), logs it and returns; run_crawler then closes.
\* The tasks gather created all take their first step, up to this await,
\* before the network answers any of them.
OrchFetchList(a) ==
    /\ LoopRuns
    /\ CrawlerClass(a) = "BaseCrawler"
    /\ opc[a] = "list"
    /\ \A b \in Adapters : opc[b] # "pending"
    /\ \/ \E n \in ListLengths(olimit) :
            /\ todo' = [todo EXCEPT ![a] = n]
            /\ opc' = [opc EXCEPT ![a] = IF n = 0 THEN "closing" ELSE "bodies"]
            /\ UNCHANGED raisedAt
       \/ /\ raisedAt' = [raisedAt EXCEPT ![a] = "run"]
          /\ opc' = [opc EXCEPT ![a] = "closing"]
          /\ UNCHANGED todo
    /\ UNCHANGED <<mainpc, bodies, fetched, persisted, cancelled, olimit, closes>>
    /\ UNCHANGED <<store, now, fetchVars, sweepVars, runVars, anaVars>>

\* EastmoneyMarketCrawler.run(limit): connect, fetch the first page of the
\* Dragon & Tiger list and insert every row of it (save_to_mongodb); limit
\* is not read.  run catches its exceptions itself, and its finally clause
\* calls self.close() before run returns.
OrchMarketRun(a) ==
    /\ LoopRuns
    /\ CrawlerClass(a) = "EastmoneyMarketCrawler"
    /\ opc[a] = "list"
    /\ \A b \in Adapters : opc[b] # "pending"
    /\ \/ \E records \in 0..MaxRecords :
            /\ persisted' = [persisted EXCEPT ![a] = records]
            /\ UNCHANGED raisedAt
       \/ /\ raisedAt' = [raisedAt EXCEPT ![a] = "run"]
          /\ UNCHANGED persisted
    /\ closes' = [closes EXCEPT ![a] = Append(@, "in_run")]
    /\ opc' = [opc EXCEPT ![a] = "closing"]
    /\ UNCHANGED <<mainpc, todo, bodies, fetched, cancelled, olimit>>
    /\ UNCHANGED <<store, now, fetchVars, sweepVars, runVars, anaVars>>

\* `content = await self.fetch_article_content(article_url)` returns a body, or
\* None, or raises (caught by run, which then returns without saving).  After
\* the last item, `if articles_to_save: await self.save_articles(...)` writes
\* the articles in the same step.
OrchFetchBody(a) ==
    /\ LoopRuns
    /\ opc[a] = "bodies"
    /\ bodies[a] < todo[a]
    /\ \/ \E got \in BOOLEAN :
            LET f == fetched[a] + (IF got THEN 1 ELSE 0)
                last == bodies[a] + 1 = todo[a]
            IN  /\ bodies' = [bodies EXCEPT ![a] = bodies[a] + 1]
                /\ fetched' = [fetched EXCEPT ![a] = f]
                /\ persisted' = [persisted EXCEPT ![a] = IF last THEN f ELSE persisted[a]]
                /\ opc' = [opc EXCEPT ![a] = IF last THEN "closing" ELSE "bodies"]
                /\ UNCHANGED raisedAt
       \/ /\ raisedAt' = [raisedAt EXCEPT ![a] = "run"]
          /\ opc' = [opc EXCEPT ![a] = "closing"]
          /\ UNCHANGED <<bodies, fetched, persisted>>
    /\ UNCHANGED <<mainpc, todo, cancelled, olimit, closes>>
    /\ UNCHANGED <<store, now, fetchVars, sweepVars, runVars, anaVars>>

\* The storage stops answering while the run is inside
\* `self.collection.find_one(...)` for its next item or inside
\* `self.collection.bulk_write(operations)`: both are synchronous calls
\* without a socket timeout, so the task never reaches its next await.
OrchStorageHangs(a) ==
    /\ LoopRuns
    /\ mainpc = "gather"
    /\ opc[a] = "bodies"
    /\ bodies[a] < todo[a]
    /\ opc' = [opc EXCEPT ![a] = "blocked"]
    /\ UNCHANGED <<mainpc, todo, bodies, fetched, persisted, raisedAt, cancelled, olimit, closes>>
    /\ UNCHANGED <<store, now, fetchVars, sweepVars, runVars, anaVars>>

\* finally: `await crawler_instance.close()`.  Nothing catches an exception of
\* close(): it leaves run_crawler and becomes the exception of the task.
OrchClose(a) ==
    /\ LoopRuns
    /\ opc[a] = "closing"
    /\ \/ /\ opc' = [opc EXCEPT ![a] = "done"]
          /\ UNCHANGED raisedAt
       \/ /\ opc' = [opc EXCEPT ![a] = "failed"]
          /\ raisedAt' = [raisedAt EXCEPT ![a] = IF raisedAt[a] = "none" THEN "close" ELSE raisedAt[a]]
    /\ closes' = [closes EXCEPT ![a] = Append(@, "after_run")]
    /\ UNCHANGED <<mainpc, todo, bodies, fetched, persisted, cancelled, olimit>>
    /\ UNCHANGED <<store, now, fetchVars, sweepVars, runVars, anaVars>>

\* Every task has returned: gather returns and main() logs "All requested
\* crawler tasks have completed."
OrchGatherReturns ==
    /\ LoopRuns
    /\ mainpc = "gather"
    /\ \A a \in Adapters : opc[a] = "done"
    /\ mainpc' = "completed"
    /\ UNCHANGED <<opc, todo, bodies, fetched, persisted, raisedAt, cancelled, olimit, closes>>
    /\ UNCHANGED <<store, now, fetchVars, sweepVars, runVars, anaVars>>

\* A task ended with an exception: gather (called without
\* return_exceptions) raises it in main() at once, and main() is left.
OrchGatherRaises ==
    /\ LoopRuns
    /\ mainpc = "gather"
    /\ \E a \in Adapters : opc[a] = "failed"
    /\ mainpc' = "raised"
    /\ UNCHANGED <<opc, todo, bodies, fetched, persisted, raisedAt, cancelled, olimit, closes>>
    /\ UNCHANGED <<store, now, fetchVars, sweepVars, runVars, anaVars>>

\* What cancelling does to a task: one suspended in run() gets CancelledError
\* there, which `except Exception` does not catch, so run() is left without
\* saving and the finally clause of run_crawler closes; the finally clause
\* of EastmoneyMarketCrawler.run closes on the way out of run().
AfterCancel(pc) == IF pc \in {"list", "bodies"} THEN "closing" ELSE pc

\* asyncio.run(main()) ends with the exception of main(): before it closes the
\* loop it cancels every task that is still running and waits for them.
OrchCancelAll ==
    /\ LoopRuns
    /\ mainpc = "raised"
    /\ mainpc' = "exited"
    /\ opc' = [a \in Adapters |-> AfterCancel(opc[a])]
    /\ cancelled' = [a \in Adapters |-> opc[a] \in {"list", "bodies"}]
    /\ closes' = [a \in Adapters |->
                     IF opc[a] = "list" /\ CrawlerClass(a) = "EastmoneyMarketCrawler"
                     THEN Append(closes[a], "in_run") ELSE closes[a]]
    /\ UNCHANGED <<todo, bodies, fetched, persisted, raisedAt, olimit>>
    /\ UNCHANGED <<store, now, fetchVars, sweepVars, runVars, anaVars>>

NextOrch ==
    \/ \E a \in Adapters : OrchConstruct(a)
    \/ \E a \in Adapters : OrchFetchList(a)
    \/ \E a \in Adapters : OrchMarketRun(a)
    \/ \E a \in Adapters : OrchFetchBody(a)
    \/ \E a \in Adapters : OrchStorageHangs(a)
    \/ \E a \in Adapters : OrchClose(a)
    \/ OrchGatherReturns
    \/ OrchGatherRaises
    \/ OrchCancelAll

SpecOrch == InitOrch /\ [][NextOrch]_vars

(***************************************************************************)
(* Fetch-with-Retry: BaseCrawler._make_request and _make_raw_request.      *)
(***************************************************************************)
\* The HTTP error statuses a GET is answered with in the model.
StatusCodes == {401, 403, 404, 514, 500, 503}

\* What one `await self.http_client.get(url)` followed by raise_for_status()
\* and the parse can end in: a page, a timeout, an HTTPStatusError with its
\* status code, another httpx.RequestError, or any other exception.
\* status is the HTTP status of an HTTPStatusError and 0 otherwise.
GetOutcomes ==
    {[kind |-> k, status |-> 0] : k \in {"ok", "timeout", "request_error", "exception"}}
    \cup {[kind |-> "status", status |-> c] : c \in StatusCodes}

\* A variant of the terminal set that retries on 404.
TerminalStatusesWithout404 == {403, 401, 514}

\* A variant in which every HTTP error status ends the loop.
EveryStatusTerminal == StatusCodes

\* `if e.response.status_code in [403, 404, 401, 514]`
TerminalStatuses == {403, 404, 401, 514}

\* A variant of the return statement that returns no page.
ParsedNothing == None

\* The value a successful call returns: BeautifulSoup(...) or response.text.
ParsedPage == IF raw THEN "text" ELSE "soup"

\* A call of _make_request(url, retries) or _make_raw_request(url, retries)
\* by a crawler with the default or the JRJ retry delay.
InitFetch ==
    /\ retries \in 0..MaxRetries
    /\ raw \in BOOLEAN
    /\ retry_delay \in {DefaultRetryDelay, JrjRetryDelay}
    /\ attempt = 0
    /\ last_exception = NoException
    /\ fpc = "get"
    /\ fresult = NoField
    /\ hist = <<>>
    /\ sleepLog = <<>>
    /\ elapsed = 0
    /\ StoreEmpty
    /\ SweepIdle
    /\ OrchIdle
    /\ RunsIdle
    /\ AnalyzerIdle

\* One iteration of the loop up to the return or to the except clause that
\* catches the failure: the GET, raise_for_status and the parse.
MakeRequestGet ==
    /\ fpc = "get"
    /\ attempt < retries
    /\ \E o \in GetOutcomes :
        /\ hist' = Append(hist, o)
        /\ IF o.kind = "ok"
             THEN /\ fresult' = ParsedPage
                  /\ fpc' = "done"
                  /\ UNCHANGED last_exception
             ELSE /\ last_exception' = o
                  /\ fpc' = "sleep"
                  /\ UNCHANGED fresult
    /\ UNCHANGED <<retries, raw, retry_delay, attempt, sleepLog, elapsed>>
    /\ UNCHANGED <<store, now, sweepVars, orchVars, runVars, anaVars>>

\* The rest of the except clause: `await asyncio.sleep(self.retry_delay)`,
\* then `break` for a terminal status and the next iteration otherwise.
MakeRequestSleep ==
    /\ fpc = "sleep"
    /\ sleepLog' = Append(sleepLog, Len(hist))
    /\ elapsed' = elapsed + retry_delay
    /\ IF last_exception.kind = "status" /\ last_exception.status \in TerminalStatuses
         THEN /\ fpc' = "broken"
              /\ UNCHANGED attempt
         ELSE /\ fpc' = "get"
              /\ attempt' = attempt + 1
    /\ UNCHANGED <<retries, raw, retry_delay, last_exception, fresult, hist>>
    /\ UNCHANGED <<store, now, sweepVars, orchVars, runVars, anaVars>>

\* The loop is over (range exhausted, or left by break): log and return None.
MakeRequestFail ==
    /\ \/ fpc = "get" /\ attempt >= retries
       \/ fpc = "broken"
    /\ fresult' = None
    /\ fpc' = "done"
    /\ UNCHANGED <<retries, raw, retry_delay, attempt, last_exception, hist,
                   sleepLog, elapsed>>
    /\ UNCHANGED <<store, now, sweepVars, orchVars, runVars, anaVars>>

NextFetch ==
    \/ MakeRequestGet
    \/ MakeRequestSleep
    \/ MakeRequestFail

SpecFetch == InitFetch /\ [][NextFetch]_vars

\* The call under the event loop's scheduling: an awaited GET (the client has
\* a timeout) and an awaited sleep both complete, and the coroutine is resumed.
SpecFetchFair == SpecFetch /\ WF_vars(NextFetch)

(***************************************************************************)
(* Dedup-and-Persist: the storage operations the crawlers, the importer    *)
(* and the analyzer issue (pymongo), each applied atomically.              *)
(***************************************************************************)
\* The filter {"url": url}: equality; a None value also matches a document
\* that lacks the field.
UrlMatches(d, url) == d.url = url \/ (url = None /\ d.url = NoField)

\* find_one that also finds a url that an ended run submitted to
\* save_articles, written or not.
FindSubmitted(docs, url) ==
    IF \E q \in Runs : url \in seen[q].submitted
    THEN {BlankDoc}
    ELSE {d \in docs : UrlMatches(d, url)}

\* find_one that never finds a document.
FindNothing(docs, url) == {}

\* collection.find_one({"url": url}): the documents the filter matches; the
\* caller only tests the result for truth.
FindOne(docs, url) == {d \in docs : UrlMatches(d, url)}

\* {"$set": fields}: the named fields get the new values, every other field
\* of the document stays.
SetFields(doc, fields) ==
    [f \in DOMAIN doc |-> IF f \in DOMAIN fields THEN fields[f] ELSE doc[f]]

\* The first document in natural (insertion) order.
FirstById(ds) == CHOOSE d \in ds : \A e \in ds : d.id <= e.id

\* An UpdateOne that inserts without looking for a match.
InsertAlways(st, url, fields) ==
    [ docs |-> st.docs \cup {SetFields([BlankDoc EXCEPT !.id = st.nextId, !.url = url], fields)},
      nextId |-> st.nextId + 1 ]

\* An upsert that writes only when it inserts ("$setOnInsert"): the first
\* writer wins.
SetOnInsertUpsert(st, url, fields) ==
    IF {d \in st.docs : UrlMatches(d, url)} = {}
    THEN [ docs |-> st.docs \cup
                    {SetFields([BlankDoc EXCEPT !.id = st.nextId, !.url = url], fields)},
           nextId |-> st.nextId + 1 ]
    ELSE st

\* An upsert that replaces the matching document: only its _id stays.
ReplaceOneUpsert(st, url, fields) ==
    LET matches == {d \in st.docs : UrlMatches(d, url)}
        target == IF matches = {} THEN [BlankDoc EXCEPT !.id = st.nextId, !.url = url]
                  ELSE FirstById(matches)
    IN  [ docs |-> (st.docs \ {target}) \cup
                   {SetFields([BlankDoc EXCEPT !.id = target.id], fields)},
          nextId |-> IF matches = {} THEN st.nextId + 1 ELSE st.nextId ]

\* UpdateOne({"url": url}, {"$set": fields}, upsert=True) on st = the
\* collection's documents and the next _id: the first match is updated, and
\* without a match a document made of the filter and the fields is inserted.
UpdateOneUpsert(st, url, fields) ==
    LET matches == {d \in st.docs : UrlMatches(d, url)}
    IN  IF matches = {}
        THEN [ docs |-> st.docs \cup
                        {SetFields([BlankDoc EXCEPT !.id = st.nextId, !.url = url], fields)},
               nextId |-> st.nextId + 1 ]
        ELSE LET target == FirstById(matches)
             IN  [ docs |-> (st.docs \ {target}) \cup {SetFields(target, fields)},
                   nextId |-> st.nextId ]

\* collection.bulk_write(operations), ordered: the operations one after the
\* other.
RECURSIVE BulkWrite(_, _)
BulkWrite(st, operations) ==
    IF operations = <<>> THEN st
    ELSE BulkWrite(UpdateOneUpsert(st, Head(operations).url, Head(operations)),
                   Tail(operations))

\* update_one({"_id": id}, {"$set": fields}): no document is added.
UpdateOneById(docs, id, fields) ==
    {IF d.id = id THEN SetFields(d, fields) ELSE d : d \in docs}

(***************************************************************************)
(* BaseCrawler.run and save_articles, for the crawler of CrawlerCollection.*)
(***************************************************************************)
\* What fetch_article_content can return for a page.
Bodies == {"body1", "body2"}

\* An item of the list fetch_news_list returns.
ListItems == {[url |-> u, title |-> "headline"] : u \in Urls}

\* The lists fetch_news_list can return: a url may be listed twice
\* (SinaCrawler.fetch_news_list does not deduplicate).
Feeds == UNION {[1..k -> ListItems] : k \in 0..MaxList}

\* The urls of a sequence of articles.
UrlsOf(articles) == {articles[i].url : i \in 1..Len(articles)}

\* article_data of BaseCrawler.run.
ArticleData(item, content) ==
    [ url |-> item.url, title |-> item.title, content |-> content,
      source |-> "sina_news_roll", fetched_at |-> now, analyzed |-> FALSE ]

\* A variant of run that saves what it has when the loop raises.
SaveAfterException(run) == [run EXCEPT !.pc = "save"]

\* An exception inside `for item in news_items`: run's `except Exception`
\* logs it, the finally clause logs, and run returns; the statements after
\* the loop (save_articles) are not executed.
AfterException(run) == [run EXCEPT !.pc = "finished"]

\* A variant of the loop that leaves for the save after every item.
NextItemSavesEarly(run) == [run EXCEPT !.idx = run.idx + 1, !.pc = "save"]

\* The end of one iteration of `for item in news_items`.
NextItem(run) ==
    LET i == run.idx + 1
    IN  [run EXCEPT !.idx = i,
                    !.pc = IF i > Len(run.news_items) THEN "save" ELSE "loop"]

\* run() up to the return of `await self.fetch_news_list()`: a list, an empty
\* list (run returns), or an exception (caught and logged by run).
CrawlFetchList(r) ==
    /\ runs[r].pc = "idle"
    /\ \/ \E items \in Feeds :
            runs' = [runs EXCEPT ![r] =
                        [RunIdle EXCEPT !.kind = "crawler",
                                        !.pc = IF items = <<>> THEN "finished" ELSE "loop",
                                        !.news_items = items, !.idx = 1,
                                        !.after = {q \in Runs : runs[q].pc = "finished"}]]
       \/ runs' = [runs EXCEPT ![r] =
                      [RunIdle EXCEPT !.kind = "crawler", !.pc = "finished",
                                      !.after = {q \in Runs : runs[q].pc = "finished"}]]
    /\ UNCHANGED <<nextId, seen, wrote, lastWritten>>
    /\ UNCHANGED <<store, now, fetchVars, sweepVars, orchVars, anaVars>>

\* One iteration of the loop up to `await self.fetch_article_content(...)`:
\* an item without url is skipped, then the existence check (find_one
\* returns, or raises and run's `except Exception` ends the run), then the
\* processed_urls check.
CrawlCheck(r) ==
    /\ runs[r].kind = "crawler"
    /\ runs[r].pc = "loop"
    /\ LET item == runs[r].news_items[runs[r].idx]
           article_url == item.url
           existing == FindOne(store[CrawlerCollection], article_url)
           stored == \E d \in store[CrawlerCollection] : d.url = article_url
       IN  \/ /\ article_url = None
              /\ runs' = [runs EXCEPT ![r] = NextItem(@)]
              /\ UNCHANGED seen
           \/ /\ article_url # None
              /\ runs' = [runs EXCEPT ![r] = AfterException(@)]
              /\ UNCHANGED seen
           \/ /\ article_url # None
              /\ seen' = [seen EXCEPT
                              ![r].absent = IF stored THEN @ ELSE @ \cup {article_url},
                              ![r].stored = IF stored THEN @ \cup {article_url} ELSE @,
                              ![r].fetched =
                                  IF existing = {} /\ article_url \notin runs[r].processed_urls
                                  THEN @ \cup {article_url} ELSE @,
                              ![r].fetchedStored =
                                  IF /\ existing = {}
                                     /\ article_url \notin runs[r].processed_urls
                                     /\ article_url \in seen[r].stored \cup
                                                        (IF stored THEN {article_url} ELSE {})
                                  THEN @ \cup {article_url} ELSE @]
              /\ IF existing # {} \/ article_url \in runs[r].processed_urls
                 THEN runs' = [runs EXCEPT ![r] = NextItem(@)]
                 ELSE runs' = [runs EXCEPT ![r].processed_urls = @ \cup {article_url},
                                           ![r].pc = "fetch"]
    /\ UNCHANGED <<nextId, wrote, lastWritten>>
    /\ UNCHANGED <<store, now, fetchVars, sweepVars, orchVars, anaVars>>

\* The return of fetch_article_content: a body (the article joins
\* articles_to_save), None (logged), or an exception, which leaves the loop
\* for run's `except Exception` and so skips save_articles.
CrawlFetchContent(r) ==
    /\ runs[r].kind = "crawler"
    /\ runs[r].pc = "fetch"
    /\ LET item == runs[r].news_items[runs[r].idx]
       IN  \/ /\ \E content \in Bodies :
                   runs' = [runs EXCEPT ![r] =
                               NextItem([@ EXCEPT !.articles_to_save =
                                                      Append(@, ArticleData(item, content))])]
              /\ seen' = [seen EXCEPT ![r].gotBody = @ \cup {item.url}]
           \/ /\ runs' = [runs EXCEPT ![r] = NextItem(@)]
              /\ UNCHANGED seen
           \/ /\ runs' = [runs EXCEPT ![r] = AfterException(@)]
              /\ UNCHANGED seen
    /\ UNCHANGED <<nextId, wrote, lastWritten>>
    /\ UNCHANGED <<store, now, fetchVars, sweepVars, orchVars, anaVars>>

\* `if articles_to_save: await self.save_articles(articles_to_save)`: the
\* bulk write applies its operations in order; an error stops it after the
\* first `applied` operations and is caught and logged by save_articles.
CrawlSave(r) ==
    /\ runs[r].kind = "crawler"
    /\ runs[r].pc = "save"
    /\ LET operations == runs[r].articles_to_save
       IN  \E applied \in 0..Len(operations) :
             LET done == SubSeq(operations, 1, applied)
                 st == BulkWrite([docs |-> store[CrawlerCollection], nextId |-> nextId], done)
             IN  /\ operations = <<>> => applied = 0
                 /\ store' = [store EXCEPT ![CrawlerCollection] = st.docs]
                 /\ nextId' = st.nextId
                 /\ wrote' = [wrote EXCEPT ![r] = Range(done)]
                 /\ lastWritten' =
                       [u \in Urls |->
                           IF \E i \in 1..applied : done[i].url = u
                           THEN done[CHOOSE i \in 1..applied :
                                        /\ done[i].url = u
                                        /\ \A j \in 1..applied : done[j].url = u => j <= i]
                           ELSE lastWritten[u]]
    /\ seen' = [seen EXCEPT ![r].submitted =
                   {runs[r].articles_to_save[i].url : i \in 1..Len(runs[r].articles_to_save)}]
    /\ runs' = [runs EXCEPT ![r].pc = "finished"]
    /\ UNCHANGED <<now, fetchVars, sweepVars, orchVars, anaVars>>

(***************************************************************************)
(* EastmoneyMarketCrawler.run and save_to_mongodb.                         *)
(***************************************************************************)
\* The SECURITY_CODE values of the rows of the Dragon & Tiger list.
DragonTigerCodes == {"600000", "000001"}

\* The first page of the list, as fetch_dragon_tiger_list returns it.
DragonTigerLists ==
    UNION {[1..k -> [code : DragonTigerCodes]] : k \in 0..MaxRecords}

\* The document insert_many stores for a record: the row (title stands for
\* its columns), saved_at (fetched_at stands for it) and a new _id.
RecordDoc(record, id) ==
    [BlankDoc EXCEPT !.id = id, !.title = record.code, !.source = "dragon_tiger_list",
                     !.fetched_at = now]

\* collection.insert_many(records): every record becomes a new document.
RECURSIVE InsertMany(_, _)
InsertMany(st, records) ==
    IF records = <<>> THEN st
    ELSE InsertMany([ docs |-> st.docs \cup {RecordDoc(Head(records), st.nextId)},
                      nextId |-> st.nextId + 1 ],
                    Tail(records))

\* run() up to `await self.save_to_mongodb(df)`: connect and fetch the list;
\* a failed connect or fetch (df is None) and an empty list end the run.
MarketFetch(r) ==
    /\ runs[r].pc = "idle"
    /\ \/ \E records \in DragonTigerLists :
            runs' = [runs EXCEPT ![r] =
                        [RunIdle EXCEPT !.kind = "market",
                                        !.pc = IF records = <<>> THEN "finished" ELSE "insert",
                                        !.news_items = records,
                                        !.after = {q \in Runs : runs[q].pc = "finished"}]]
       \/ runs' = [runs EXCEPT ![r] =
                      [RunIdle EXCEPT !.kind = "market", !.pc = "finished",
                                      !.after = {q \in Runs : runs[q].pc = "finished"}]]
    /\ UNCHANGED <<nextId, seen, wrote, lastWritten>>
    /\ UNCHANGED <<store, now, fetchVars, sweepVars, orchVars, anaVars>>

\* save_to_mongodb(df): insert_many of the records, or an exception, which is
\* caught and logged; then run's finally clause closes.
MarketSave(r) ==
    /\ runs[r].kind = "market"
    /\ runs[r].pc = "insert"
    /\ \/ LET st == InsertMany([docs |-> store[MarketCollection], nextId |-> nextId],
                               runs[r].news_items)
          IN  /\ store' = [store EXCEPT ![MarketCollection] = st.docs]
              /\ nextId' = st.nextId
              /\ wrote' = [wrote EXCEPT ![r] = st.docs \ store[MarketCollection]]
       \/ UNCHANGED <<store, nextId, wrote>>
    /\ runs' = [runs EXCEPT ![r].pc = "finished"]
    /\ UNCHANGED <<seen, lastWritten>>
    /\ UNCHANGED <<now, fetchVars, sweepVars, orchVars, anaVars>>

(***************************************************************************)
(* fetch_and_save_finnhub_news of finnhub_news_importer.                   *)
(***************************************************************************)
\* The items adapter.get_latest_market_news can return: a url and an id, the
\* same id under another url, an item without url, an item without both.
FinnhubItems ==
    { [url |-> "u1", id |-> 1], [url |-> "u2", id |-> 1],
      [url |-> None, id |-> 2], [url |-> None, id |-> NoTime] }

FinnhubFeeds == UNION {[1..k -> FinnhubItems] : k \in 0..MaxList}

\* The document the importer prepares; finnhub_id also stands for the other
\* traceability fields (category, image, news_source).
FinnhubDoc(item) ==
    [ url |-> item.url, title |-> "headline", content |-> "summary",
      source |-> "finnhub_api", fetched_at |-> now, analyzed |-> FALSE,
      finnhub_id |-> item.id ]

\* collection.find_one({"$or": [{"url": url}, {"finnhub_id": news_id}]}),
\* the second clause only when news_id is not None.
FindOneFinnhub(docs, url, news_id) ==
    {d \in docs : UrlMatches(d, url) \/ (news_id # NoTime /\ d.finnhub_id = news_id)}

\* Up to the return of `await adapter.get_latest_market_news(...)`; an empty
\* answer ends the import.
ImportFetch(r) ==
    /\ runs[r].pc = "idle"
    /\ \E items \in FinnhubFeeds :
         runs' = [runs EXCEPT ![r] =
                     [RunIdle EXCEPT !.kind = "finnhub",
                                     !.pc = IF items = <<>> THEN "finished" ELSE "loop",
                                     !.news_items = items, !.idx = 1]]
    /\ UNCHANGED <<nextId, seen, wrote, lastWritten>>
    /\ UNCHANGED <<store, now, fetchVars, sweepVars, orchVars, anaVars>>

\* One iteration of `for item in news_items`: skip an item without url and
\* id, skip one that find_one finds, else append its UpdateOne to operations
\* (kept in articles_to_save).
ImportCheck(r) ==
    /\ runs[r].kind = "finnhub"
    /\ runs[r].pc = "loop"
    /\ LET item == runs[r].news_items[runs[r].idx]
           existing == FindOneFinnhub(store[FinnhubCollection], item.url, item.id)
       IN  IF (item.url = None /\ item.id = NoTime) \/ existing # {}
           THEN runs' = [runs EXCEPT ![r] = NextItem(@)]
           ELSE runs' = [runs EXCEPT ![r] =
                            NextItem([@ EXCEPT !.articles_to_save =
                                                   Append(@, FinnhubDoc(item))])]
    /\ UNCHANGED <<nextId, seen, wrote, lastWritten>>
    /\ UNCHANGED <<store, now, fetchVars, sweepVars, orchVars, anaVars>>

\* `if operations: collection.bulk_write(operations)`; an error stops the
\* write after the first `applied` operations and ends the import.
ImportWrite(r) ==
    /\ runs[r].kind = "finnhub"
    /\ runs[r].pc = "save"
    /\ LET operations == runs[r].articles_to_save
       IN  \E applied \in 0..Len(operations) :
             LET done == SubSeq(operations, 1, applied)
                 st == BulkWrite([docs |-> store[FinnhubCollection], nextId |-> nextId], done)
             IN  /\ store' = [store EXCEPT ![FinnhubCollection] = st.docs]
                 /\ nextId' = st.nextId
                 /\ wrote' = [wrote EXCEPT ![r] = Range(done)]
    /\ runs' = [runs EXCEPT ![r].pc = "finished"]
    /\ UNCHANGED <<seen, lastWritten>>
    /\ UNCHANGED <<now, fetchVars, sweepVars, orchVars, anaVars>>

(***************************************************************************)
(* extract_analysis_details of news_analyzer.  A text is the sequence of   *)
(* its lines; the empty sequence is the empty text (and None).             *)
(***************************************************************************)
\* "Importance_Score: n" and "Sentiment_Score: n", n written in digits.
ImportanceLine(n) == Line("Importance_Score", n, NoField)

SentimentLine(n) == Line("Sentiment_Score", n, NoField)

\* The two lines that enclose the sector items, and an item "- text".
SectorsStart == Line("Affected_Sectors_Start", NoTime, NoField)

SectorsEnd == Line("Affected_Sectors_End", NoTime, NoField)

SectorItem(text) == Line("-", NoTime, text)

\* "Analysis_Summary: text"
SummaryLine(text) == Line("Analysis_Summary", NoTime, text)

\* A line without any label.
Prose == Line("prose", NoTime, "Analysis failed.")

\* re.search: the position of the first line with the label after position
\* `from`, 0 when there is none.
FirstLine(analysis_text, kind, from) ==
    LET matches == {i \in (from + 1)..Len(analysis_text) : analysis_text[i].kind = kind}
    IN  IF matches = {} THEN 0 ELSE CHOOSE i \in matches : \A j \in matches : i <= j

\* A sector list read back to front.
RECURSIVE SectorLinesReversed(_)
SectorLinesReversed(sector_text) ==
    IF sector_text = <<>> THEN <<>>
    ELSE SectorLinesReversed(Tail(sector_text))
         \o (IF Head(sector_text).kind = "-" THEN <<Head(sector_text).text>> ELSE <<>>)

\* re.findall(r"^\s*-\s*(.*)", sector_text, re.MULTILINE): the texts of the
\* item lines, in order.
RECURSIVE SectorLines(_)
SectorLines(sector_text) ==
    IF sector_text = <<>> THEN <<>>
    ELSE (IF Head(sector_text).kind = "-" THEN <<Head(sector_text).text>> ELSE <<>>)
         \o SectorLines(Tail(sector_text))

\* The details extract_analysis_details starts from.
DefaultDetails ==
    [ importance_score |-> 0, sentiment_score |-> 0, sectors |-> <<>>,
      analysis_summary |-> Summary("", <<>>) ]

\* extract_analysis_details(analysis_text).  The scores are int() of the
\* digits matched; the sector block runs from the first start line to the
\* first end line after it; the summary runs to the end of the text.
ExtractAnalysisDetails(analysis_text) ==
    IF analysis_text = <<>> THEN DefaultDetails
    ELSE LET importance_match == FirstLine(analysis_text, "Importance_Score", 0)
             sentiment_match == FirstLine(analysis_text, "Sentiment_Score", 0)
             block_start == FirstLine(analysis_text, "Affected_Sectors_Start", 0)
             block_end == IF block_start = 0 THEN 0
                          ELSE FirstLine(analysis_text, "Affected_Sectors_End", block_start)
             summary_match == FirstLine(analysis_text, "Analysis_Summary", 0)
         IN  [ importance_score |->
                 IF importance_match = 0 THEN 0
                 ELSE analysis_text[importance_match].value,
               sentiment_score |->
                 IF sentiment_match = 0 THEN 0
                 ELSE analysis_text[sentiment_match].value,
               sectors |->
                 IF block_end = 0 THEN <<>>
                 ELSE SectorLines(SubSeq(analysis_text, block_start + 1, block_end - 1)),
               analysis_summary |->
                 IF summary_match = 0 THEN Summary("", <<>>)
                 ELSE Summary(analysis_text[summary_match].text,
                              SubSeq(analysis_text, summary_match + 1,
                                     Len(analysis_text))) ]

\* The lines the texts given to extract_analysis_details are made of.
LineAlphabet ==
    { ImportanceLine(8), SentimentLine(2), SectorsStart,
      SectorsEnd, SectorItem("Tech: impact"), SectorItem("Energy: cost"),
      SummaryLine("text"), Prose }

\* Every text of at most MaxLines lines.
Texts == UNION {[1..k -> LineAlphabet] : k \in 0..MaxLines}

InitExtract ==
    /\ epc = "called"
    /\ etext \in Texts
    /\ edetails = NoDetails
    /\ QueryIdle
    /\ apc = "idle"
    /\ alimit = 0
    /\ amax_age = 0
    /\ acreds = [llm |-> FALSE, finance |-> FALSE, email |-> FALSE]
    /\ allm = {}
    /\ aclients = FALSE
    /\ aemail = FALSE
    /\ asrc = NoField
    /\ batch = <<>>
    /\ results = <<>>
    /\ emails = <<>>
    /\ StoreEmpty
    /\ RunsIdle
    /\ FetchIdle
    /\ SweepIdle
    /\ OrchIdle

\* details = extract_analysis_details(analysis_text): every exception of the
\* extraction is caught inside, so the call returns.
ExtractCall ==
    /\ epc = "called"
    /\ edetails' = ExtractAnalysisDetails(etext)
    /\ epc' = "returned"
    /\ UNCHANGED <<etext, apc, anaCfg, asrc, batch, results, emails, qryVars>>
    /\ UNCHANGED <<store, now, fetchVars, sweepVars, orchVars, runVars>>

NextExtract == ExtractCall

SpecExtract == InitExtract /\ [][NextExtract]_vars

(***************************************************************************)
(* send_query_to_first_available_model of llm_utils.                       *)
(***************************************************************************)
\* The keys of GEMINI_MODELS_CONFIG, in its order.
ModelKeys ==
    << "gemini-2.5-flash-exp", "gemini-2.5-flash-latest-studio",
       "gemini-2.0-flash-latest-studio" >>

\* model_details.get("type"): the two supported types, another type, and None
\* for a model without "type".
ModelTypes == {"studio_via_genai", "vertex_via_genai", "openai", None}

\* The dictionaries models_config can be: the first k keys, each with a type.
ModelConfigs ==
    UNION { {[i \in 1..k |-> [key |-> ModelKeys[i], type |-> t[i]]] : t \in [1..k -> ModelTypes]}
            : k \in 0..MaxModels }

\* A variant that takes the studio client for every model.
StudioClientAlways(model_type) == studio_client

\* client_to_use after the if/elif on model_type, as a truth value; the else
\* branch (unsupported type) continues before client_to_use is read.
ClientToUse(model_type) ==
    IF model_type = "studio_via_genai" THEN studio_client
    ELSE IF model_type = "vertex_via_genai" THEN vertex_client
    ELSE FALSE

\* What call_model_via_genai_client returns: (True, text), or (False, message)
\* for a blocked query, an empty response or an exception of the API call.
CallReturns ==
    {[ok |-> TRUE, text |-> t] : t \in {"", "response_8_2"}}
    \cup {[ok |-> FALSE, text |-> "error_msg"]}

\* A call of send_query_to_first_available_model(query, studio_client,
\* vertex_client, models_config).
InitQuery ==
    /\ qpc = "loop"
    /\ models_config \in ModelConfigs
    /\ studio_client \in BOOLEAN
    /\ vertex_client \in BOOLEAN
    /\ model_index = 1
    /\ calls = <<>>
    /\ llm_output = NotReturned
    /\ ExtractIdle
    /\ apc = "idle"
    /\ alimit = 0
    /\ amax_age = 0
    /\ acreds = [llm |-> FALSE, finance |-> FALSE, email |-> FALSE]
    /\ allm = {}
    /\ aclients = FALSE
    /\ aemail = FALSE
    /\ asrc = NoField
    /\ batch = <<>>
    /\ results = <<>>
    /\ emails = <<>>
    /\ StoreEmpty
    /\ RunsIdle
    /\ FetchIdle
    /\ SweepIdle
    /\ OrchIdle

\* One iteration of the loop over models_config.items(): an unsupported type
\* continues, a missing client is logged and skipped, otherwise the model is
\* called; a success returns (model_name_key, text).
QueryTryModel ==
    /\ qpc = "loop"
    /\ model_index <= Len(models_config)
    /\ LET model_name_key == models_config[model_index].key
           model_type == models_config[model_index].type
       IN  IF ClientToUse(model_type)
           THEN \E r \in CallReturns :
                  /\ calls' = Append(calls, [index |-> model_index, key |-> model_name_key,
                                             ok |-> r.ok, text |-> r.text])
                  /\ IF r.ok
                     THEN /\ llm_output' = [returned |-> TRUE, key |-> model_name_key,
                                            text |-> r.text]
                          /\ qpc' = "returned"
                          /\ UNCHANGED model_index
                     ELSE /\ model_index' = model_index + 1
                          /\ UNCHANGED <<llm_output, qpc>>
           ELSE /\ model_index' = model_index + 1
                /\ UNCHANGED <<calls, llm_output, qpc>>
    /\ UNCHANGED <<models_config, studio_client, vertex_client>>
    /\ UNCHANGED <<apc, anaCfg, asrc, batch, results, emails, extVars>>
    /\ UNCHANGED <<store, now, fetchVars, sweepVars, orchVars, runVars>>

\* `if not models_config: return None`, and the `return None` after the loop.
QueryReturnNone ==
    /\ qpc = "loop"
    /\ model_index > Len(models_config)
    /\ llm_output' = [returned |-> TRUE, key |-> None, text |-> None]
    /\ qpc' = "returned"
    /\ UNCHANGED <<models_config, studio_client, vertex_client, model_index, calls>>
    /\ UNCHANGED <<apc, anaCfg, asrc, batch, results, emails, extVars>>
    /\ UNCHANGED <<store, now, fetchVars, sweepVars, orchVars, runVars>>

NextQuery ==
    \/ QueryTryModel
    \/ QueryReturnNone

SpecQuery == InitQuery /\ [][NextQuery]_vars

(***************************************************************************)
(* The analysis stage: run_analysis_pipeline_for_sources of news_analyzer. *)
(***************************************************************************)
\* The texts a model returns in the pipeline, by name; analysis_raw holds
\* the name of the text.
Responses == {"response_8_2", "response_11_5"}

\* The text of a response: the labeled response with importance 8 and
\* sentiment 2, and one that scores the importance 11 and the sentiment 5.
ResponseText(name) ==
    IF name = "response_8_2"
    THEN << ImportanceLine(8), SentimentLine(2), SectorsStart,
            SectorItem("Tech: impact"), SectorsEnd, SummaryLine("text") >>
    ELSE << ImportanceLine(11), SentimentLine(5), SummaryLine("text") >>

\* The sources the pipelines read.
AnalysisSources == {CrawlerCollection, FinnhubCollection}

\* query of get_unanalyzed_news: analyzed is not True and fetched_at is
\* present and not before the cutoff.
MatchesUnanalyzed(d, cutoff) ==
    d.analyzed # TRUE /\ d.fetched_at # NoTime /\ d.fetched_at >= cutoff

\* list(cursor): the documents in natural order.
RECURSIVE InNaturalOrder(_)
InNaturalOrder(ds) ==
    IF ds = {} THEN <<>>
    ELSE LET d == FirstById(ds) IN <<d>> \o InNaturalOrder(ds \ {d})

\* get_unanalyzed_news(db_name, collection_name, limit, max_age_days)
GetUnanalyzedNews(docs, limit, max_age_days) ==
    LET cutoff == now - max_age_days
        news_list == InNaturalOrder({d \in docs : MatchesUnanalyzed(d, cutoff)})
    IN  SubSeq(news_list, 1, IF Len(news_list) < limit THEN Len(news_list) ELSE limit)

\* What analyze_news_article can do with an article.  A title that is None
\* raises before the try block (article_title[:50]); without LLM clients the
\* try block raises and {} is returned; else some model answers or none does.
Outcomes(article) ==
    IF article.title = None THEN {"raised"}
    ELSE IF ~aclients THEN {"empty"}
    ELSE allm \cup {"all_models_failed"}

\* The {} analyze_news_article returns from `except Exception`.
EmptyResult ==
    [ article_id |-> NoTime, analysis_raw |-> NoField, analysis_structured |-> NoDetails,
      analyzed_at |-> NoTime, error |-> NoField ]

\* The entry of final_results for an article: the result of
\* analyze_news_article, or the error result analyze_batch builds for an
\* exception; a key the dictionary lacks holds NoField (NoTime).
ResultOf(article, outcome) ==
    CASE outcome \in Responses ->
           [ article_id |-> article.id, analysis_raw |-> outcome,
             analysis_structured |-> ExtractAnalysisDetails(ResponseText(outcome)),
             analyzed_at |-> now, error |-> NoField ]
      [] outcome = "all_models_failed" ->
           [ article_id |-> article.id, analysis_raw |-> None,
             analysis_structured |-> ExtractAnalysisDetails(<<>>),
             analyzed_at |-> now, error |-> NoField ]
      [] outcome = "raised" ->
           [ article_id |-> article.id, analysis_raw |-> "Analysis failed due to error.",
             analysis_structured |-> ExtractAnalysisDetails(<<Prose>>),
             analyzed_at |-> now, error |-> "TypeError" ]
      [] OTHER -> EmptyResult

\* The update of save_analysis that leaves the analyzed flag as it was.
AnalysisFieldsWithoutFlag(result) ==
    IF result.error # NoField /\ result.analysis_raw = "Analysis failed due to error."
    THEN [ analysis_error |-> result.error, analyzed_at |-> result.analyzed_at ]
    ELSE [ analysis_raw |-> result.analysis_raw,
           analysis_structured |-> result.analysis_structured,
           analyzed_at |-> result.analyzed_at ]

\* The "$set" of save_analysis for one result: the error branch and the
\* normal branch.
AnalysisFields(result) ==
    IF result.error # NoField /\ result.analysis_raw = "Analysis failed due to error."
    THEN [ analysis_error |-> result.error, analyzed |-> TRUE,
           analyzed_at |-> result.analyzed_at ]
    ELSE [ analysis_raw |-> result.analysis_raw,
           analysis_structured |-> result.analysis_structured,
           analyzed |-> TRUE, analyzed_at |-> result.analyzed_at ]

\* A save_analysis whose loop ends at the first result that carries an error.
RECURSIVE SaveAnalysisUntilError(_, _)
SaveAnalysisUntilError(docs, analysis_results) ==
    IF analysis_results = <<>> THEN docs
    ELSE LET result == Head(analysis_results)
         IN  IF result.article_id = NoTime \/ result.error # NoField THEN docs
             ELSE SaveAnalysisUntilError(
                      UpdateOneById(docs, result.article_id, AnalysisFields(result)),
                      Tail(analysis_results))

\* The loop of save_analysis: a result without "article_id" (the {} result)
\* raises KeyError, which the enclosing try catches, so the loop ends there.
RECURSIVE SaveAnalysis(_, _)
SaveAnalysis(docs, analysis_results) ==
    IF analysis_results = <<>> THEN docs
    ELSE LET result == Head(analysis_results)
         IN  IF result.article_id = NoTime THEN docs
             ELSE SaveAnalysis(UpdateOneById(docs, result.article_id, AnalysisFields(result)),
                               Tail(analysis_results))

\* NewsAnalyzer(): create_clients() returns the clients the credentials
\* allow and never raises; TushareAdapter() and EmailService() raise
\* ValueError without their credentials, and the except clause of __init__
\* then sets the clients and every service to None.  The constructor
\* returns in every case.
AnalyzerConstruct ==
    /\ apc = "new"
    /\ LET raised == ~acreds.finance \/ ~acreds.email
       IN  /\ aclients' = (acreds.llm /\ ~raised)
           /\ aemail' = ~raised
    /\ apc' = "idle"
    /\ UNCHANGED <<alimit, amax_age, acreds, allm, asrc, batch, results, emails, extVars, qryVars>>
    /\ UNCHANGED <<store, now, fetchVars, sweepVars, orchVars, runVars>>

\* unanalyzed_news = analyzer.get_unanalyzed_news(...) for one source, when
\* it finds something.
AnalyzerGet ==
    /\ apc = "idle"
    /\ \E c \in AnalysisSources :
         LET unanalyzed_news == GetUnanalyzedNews(store[c], alimit, amax_age)
         IN  /\ unanalyzed_news # <<>>
             /\ asrc' = c
             /\ batch' = unanalyzed_news
    /\ apc' = "analyze"
    /\ UNCHANGED <<anaCfg, results, emails, extVars, qryVars>>
    /\ UNCHANGED <<store, now, fetchVars, sweepVars, orchVars, runVars>>

\* analysis_results = await analyzer.analyze_batch(...)
AnalyzerAnalyze ==
    /\ apc = "analyze"
    /\ \E outcome \in [1..Len(batch) ->
                         Responses \cup {"all_models_failed", "raised", "empty"}] :
         /\ \A i \in 1..Len(batch) : outcome[i] \in Outcomes(batch[i])
         /\ results' = [i \in 1..Len(batch) |-> ResultOf(batch[i], outcome[i])]
    /\ apc' = "save"
    /\ UNCHANGED <<anaCfg, asrc, batch, emails, extVars, qryVars>>
    /\ UNCHANGED <<store, now, fetchVars, sweepVars, orchVars, runVars>>

\* analyzer.save_analysis(db_name, collection_name, analysis_results)
AnalyzerSave ==
    /\ apc = "save"
    /\ store' = [store EXCEPT ![asrc] = SaveAnalysis(@, results)]
    /\ apc' = "alerts"
    /\ UNCHANGED <<anaCfg, asrc, batch, results, emails, extVars, qryVars>>
    /\ UNCHANGED <<now, fetchVars, sweepVars, orchVars, runVars>>

\* ALERT_THRESHOLDS
IMPORTANCE_THRESHOLD == 7

POSITIVE_SENTIMENT_THRESHOLD == 8

NEGATIVE_SENTIMENT_THRESHOLD == 3

\* structured_data.get(key, 0) of a result: 0 for the {} result.
ScoreOf(result, key) ==
    IF result.analysis_structured[key] = NoTime THEN 0
    ELSE result.analysis_structured[key]

\* An alert on the importance alone.
IsImportant(result) ==
    ScoreOf(result, "importance_score") >= IMPORTANCE_THRESHOLD

\* The test of check_alerts_and_send_emails on the scores of a result.
IsSignificantAlert(result) ==
    /\ ScoreOf(result, "importance_score") >= IMPORTANCE_THRESHOLD
    /\ \/ ScoreOf(result, "sentiment_score") >= POSITIVE_SENTIMENT_THRESHOLD
       \/ ScoreOf(result, "sentiment_score") <= NEGATIVE_SENTIMENT_THRESHOLD

\* alerts_to_send: the results without "error" that pass the test, in order.
RECURSIVE AlertsToSend(_)
AlertsToSend(analysis_results) ==
    IF analysis_results = <<>> THEN <<>>
    ELSE LET result == Head(analysis_results)
         IN  (IF result.error = NoField /\ IsSignificantAlert(result)
              THEN <<result>> ELSE <<>>)
             \o AlertsToSend(Tail(analysis_results))

\* analyzer.check_alerts_and_send_emails(analysis_results, alert_thresholds):
\* without an email service it returns at once; else it collects the alerts
\* and, if there are any, calls send_email once with the digest of all of
\* them (an error of send_email is logged).  It writes nothing to the
\* storage, and the pipeline leaves this source.
AnalyzerCheckAlerts ==
    /\ apc = "alerts"
    /\ emails' = IF aemail /\ AlertsToSend(results) # <<>>
                 THEN Append(emails, AlertsToSend(results))
                 ELSE emails
    /\ apc' = "idle"
    /\ asrc' = NoField
    /\ batch' = <<>>
    /\ results' = <<>>
    /\ UNCHANGED <<anaCfg, extVars, qryVars>>
    /\ UNCHANGED <<store, now, fetchVars, sweepVars, orchVars, runVars>>

\* The clock moves on a day.
ClockTick ==
    /\ now < LastDay
    /\ now' = now + 1
    /\ UNCHANGED <<store, fetchVars, sweepVars, orchVars, runVars, anaVars>>

(***************************************************************************)
(* The storage under crawler runs, Finnhub imports and the analysis stage, *)
(* all within one day.                                                     *)
(***************************************************************************)
InitStore ==
    /\ StoreEmpty
    /\ RunsIdle
    /\ apc = "idle"
    /\ alimit = MaxLimit
    /\ amax_age = MaxAgeDays
    /\ acreds = [llm |-> TRUE, finance |-> TRUE, email |-> TRUE]
    /\ allm = {"response_8_2"}
    /\ aclients = TRUE
    /\ aemail = TRUE
    /\ asrc = NoField
    /\ batch = <<>>
    /\ results = <<>>
    /\ emails = <<>>
    /\ ExtractIdle
    /\ QueryIdle
    /\ FetchIdle
    /\ SweepIdle
    /\ OrchIdle

NextStore ==
    \/ \E r \in Runs : CrawlFetchList(r)
    \/ \E r \in Runs : CrawlCheck(r)
    \/ \E r \in Runs : CrawlFetchContent(r)
    \/ \E r \in Runs : CrawlSave(r)
    \/ \E r \in Runs : ImportFetch(r)
    \/ \E r \in Runs : ImportCheck(r)
    \/ \E r \in Runs : ImportWrite(r)
    \/ AnalyzerGet
    \/ AnalyzerAnalyze
    \/ AnalyzerSave
    \/ AnalyzerCheckAlerts

SpecStore == InitStore /\ [][NextStore]_vars

(***************************************************************************)
(* One adapter run twice in sequence against a source that does not change *)
(* and a network and a storage that do not fail.                           *)
(***************************************************************************)
\* Slot r may take a step: the run before it has ended.
InSequence(r) == IF r = 1 THEN TRUE ELSE runs[r - 1].pc = "finished"

\* Run r saw of the source what the run before it saw: the same adapter, the
\* same list, and no body where the run before got none.
SourceUnchanged(r) ==
    IF r = 1 \/ runs[r].kind = "none" THEN TRUE
    ELSE /\ runs[r].kind = runs[r - 1].kind
         /\ runs[r].news_items = runs[r - 1].news_items
         /\ \A i \in DOMAIN runs[r].articles_to_save :
               runs[r].articles_to_save[i].url \notin
                   (seen[r - 1].fetched \ seen[r - 1].gotBody)

\* Run r met no error of the network or of the storage.
NoFault(r) ==
    runs[r].pc = "finished" =>
        /\ runs[r].kind = "crawler" =>
              /\ runs[r].idx \notin 1..Len(runs[r].news_items)
              /\ wrote[r] = Range(runs[r].articles_to_save)
        /\ runs[r].kind = "market" =>
              Cardinality(wrote[r]) = Len(runs[r].news_items)

InitTwice ==
    /\ StoreEmpty
    /\ RunsIdle
    /\ FetchIdle
    /\ SweepIdle
    /\ OrchIdle
    /\ AnalyzerIdle

\* A step of run r in this setting.
Undisturbed(r) == InSequence(r) /\ SourceUnchanged(r)' /\ NoFault(r)'

NextTwice ==
    \/ \E r \in Runs : CrawlFetchList(r) /\ Undisturbed(r)
    \/ \E r \in Runs : CrawlCheck(r) /\ Undisturbed(r)
    \/ \E r \in Runs : CrawlFetchContent(r) /\ Undisturbed(r)
    \/ \E r \in Runs : CrawlSave(r) /\ Undisturbed(r)
    \/ \E r \in Runs : MarketFetch(r) /\ Undisturbed(r)
    \/ \E r \in Runs : MarketSave(r) /\ Undisturbed(r)

SpecTwice == InitTwice /\ [][NextTwice]_vars

(***************************************************************************)
(* The analysis stage over documents an importer stored earlier, with the  *)
(* clock running.                                                          *)
(***************************************************************************)
\* The days on which the stored documents were fetched.
StoredDates == 0..FirstDay

\* The k-th stored document: its title (None when the API gave no headline),
\* the day it was fetched, and whether an earlier pass analyzed it.
StoredDoc(k, title, day, done) ==
    [BlankDoc EXCEPT !.id = k, !.url = "stored" \o ToString(k), !.title = title,
                     !.content = "summary", !.source = "finnhub_api",
                     !.fetched_at = day, !.finnhub_id = k, !.analyzed = done,
                     !.analysis_raw = IF done THEN "response_8_2" ELSE NoField,
                     !.analysis_structured =
                         IF done THEN ExtractAnalysisDetails(ResponseText("response_8_2"))
                         ELSE NoDetails,
                     !.analyzed_at = IF done THEN day ELSE NoTime]

InitAnalysis ==
    /\ \E n \in 0..MaxStoredDocs :
         \E title \in [1..n -> {"headline", None}], day \in [1..n -> StoredDates],
            done \in [1..n -> BOOLEAN] :
           /\ store = [c \in Collections |->
                          IF c = FinnhubCollection
                          THEN {StoredDoc(k, title[k], day[k], done[k]) : k \in 1..n}
                          ELSE {}]
           /\ nextId = n + 1
    /\ now = FirstDay
    /\ runs = [r \in Runs |-> RunIdle]
    /\ seen = [r \in Runs |-> SeenNothing]
    /\ wrote = [r \in Runs |-> {}]
    /\ lastWritten = [u \in Urls |-> NoArticle]
    /\ apc = "new"
    /\ alimit \in 1..MaxLimit
    /\ amax_age \in 1..MaxAgeDays
    /\ acreds \in [llm : BOOLEAN, finance : BOOLEAN, email : BOOLEAN]
    /\ allm = Responses
    /\ aclients = FALSE
    /\ aemail = FALSE
    /\ asrc = NoField
    /\ batch = <<>>
    /\ results = <<>>
    /\ emails = <<>>
    /\ ExtractIdle
    /\ QueryIdle
    /\ FetchIdle
    /\ SweepIdle
    /\ OrchIdle

NextAnalysis ==
    \/ AnalyzerConstruct
    \/ AnalyzerGet
    \/ AnalyzerAnalyze
    \/ AnalyzerSave
    \/ AnalyzerCheckAlerts
    \/ ClockTick

SpecAnalysis == InitAnalysis /\ [][NextAnalysis]_vars

(***************************************************************************)
(* The analysis stage when the storage can fail under save_analysis.       *)
(***************************************************************************)
\* save_analysis when update_one raises at result number k: the updates of
\* the results before it are applied, `except Exception` logs the error and
\* the method returns; the pipeline goes on to the alerts.  The storage
\* fails only while fewer than MaxDigests digests have been sent.
AnalyzerSaveFails ==
    /\ apc = "save"
    /\ Len(emails) < MaxDigests
    /\ \E k \in 1..Len(results) :
         store' = [store EXCEPT ![asrc] = SaveAnalysis(@, SubSeq(results, 1, k - 1))]
    /\ apc' = "alerts"
    /\ UNCHANGED <<anaCfg, asrc, batch, results, emails, extVars, qryVars>>
    /\ UNCHANGED <<now, fetchVars, sweepVars, orchVars, runVars>>

NextAlerts ==
    \/ AnalyzerConstruct
    \/ AnalyzerGet
    \/ AnalyzerAnalyze
    \/ AnalyzerSave
    \/ AnalyzerSaveFails
    \/ AnalyzerCheckAlerts

SpecAlerts == InitAnalysis /\ [][NextAlerts]_vars

(***************************************************************************)
(* The maintenance sweep over documents the crawlers and the importer      *)
(* stored on earlier days.                                                 *)
(***************************************************************************)
\* The k-th stored document, written by a crawler run on the given day: the
\* fields of article_data.
CrawledDoc(k, day) ==
    [BlankDoc EXCEPT !.id = k, !.url = "crawled" \o ToString(k), !.title = "headline",
                     !.content = "body1", !.source = "sina_news_roll",
                     !.fetched_at = day]

InitRetention ==
    /\ \E n \in 0..MaxStoredDocs :
         \E writer \in [1..n -> {"crawler", "importer"}], day \in [1..n -> StoredDates] :
           /\ store = [c \in Collections |->
                          IF c = CrawlerCollection
                          THEN {CrawledDoc(k, day[k]) : k \in {j \in 1..n : writer[j] = "crawler"}}
                          ELSE IF c = FinnhubCollection
                          THEN {StoredDoc(k, "headline", day[k], FALSE) :
                                   k \in {j \in 1..n : writer[j] = "importer"}}
                          ELSE {}]
           /\ nextId = n + 1
    /\ now = FirstDay
    /\ runs = [r \in Runs |-> RunIdle]
    /\ seen = [r \in Runs |-> SeenNothing]
    /\ wrote = [r \in Runs |-> {}]
    /\ lastWritten = [u \in Urls |-> NoArticle]
    /\ SweepIdle
    /\ FetchIdle
    /\ OrchIdle
    /\ AnalyzerIdle

SpecRetention == InitRetention /\ [][NextSweep]_vars

(***************************************************************************)
(* Claims about the Orchestrator.                                          *)
(***************************************************************************)
\* The invocation is over: main() has returned or was left, no task runs.
OrchOver ==
    /\ mainpc \in {"completed", "exited"}
    /\ \A a \in Adapters : opc[a] \in {"done", "failed"}

\* C7 (as claimed): when an adapter raised during construction, run or close,
\* every other adapter has run to the end of its run, the articles it fetched
\* are persisted, and the invocation completed.
C7_OneFailureLeavesOthersAlone ==
    (OrchOver /\ \E a \in Adapters : raisedAt[a] # "none") =>
        /\ mainpc = "completed"
        /\ \A b \in Adapters :
              raisedAt[b] = "none" =>
                  /\ ~cancelled[b]
                  /\ opc[b] = "done"
                  /\ bodies[b] = todo[b]
                  /\ persisted[b] = fetched[b]

(***************************************************************************)
(* Claims about the Maintenance Sweep.                                     *)
(***************************************************************************)
\* The collections the loop of the running sweep has gone through.
SweptSoFar == {COLLECTIONS_TO_CLEAN[i] : i \in 1..(sweepIdx - 1)}

\* The documents of a set that, when the sweep started, were older than the
\* clock minus the retention period by their `date` timestamp.
OlderThanRetention(docs) ==
    {d \in docs : d.date >= 0 /\ d.date + retention_days < startedAt}

RECURSIVE SumReported(_)
SumReported(cs) ==
    IF cs = {} THEN 0
    ELSE LET c == CHOOSE x \in cs : TRUE
         IN  reported[c] + SumReported(cs \ {c})

\* C3: a dry run leaves every collection as it was (the storage still equals
\* what the dry run started from); the count it reports for a collection is the
\* number of documents of that collection older than now - retention_days (by
\* the `date` timestamp the sweep reads); the total it reports is the sum of
\* the counts it reported.
C3_DryRunReportsAndKeeps ==
    (swpc \in {"loop", "done"} /\ dry_run) =>
        /\ deleted = {}
        /\ store = startStore
        /\ \A c \in SweptSoFar \ errored :
              reported[c] = Cardinality(OlderThanRetention(store[c]))
        /\ swpc = "done" => total_deleted_count = SumReported(SweptSoFar \ errored)

\* C3 witness: a finished dry run that reported two old documents, in two
\* collections, and met no error.
C3_Witness ==
    /\ swpc = "done"
    /\ dry_run
    /\ errored = {}
    /\ total_deleted_count = 2
    /\ \E c1, c2 \in Collections : c1 # c2 /\ reported[c1] = 1 /\ reported[c2] = 1

\* C4: when a dry run reported N and a non-dry run with the same
\* retention_days follows on the same storage state at the same clock reading,
\* neither meeting a storage error, the non-dry run deletes exactly the N
\* documents that matched, keeps every other document, and reports N.
C4_ActiveRunDeletesWhatDryRunCounted ==
    (/\ swpc = "done"
     /\ ~dry_run
     /\ errored = {}
     /\ before.ran
     /\ before.dry_run
     /\ before.errored = {}
     /\ before.retention_days = retention_days
     /\ before.at = startedAt)
    => /\ Cardinality(deleted) = before.total
       /\ total_deleted_count = before.total
       /\ \A c \in Collections :
             /\ store[c] \subseteq before.store[c]
             /\ before.store[c] \ store[c] = OlderThanRetention(before.store[c])
             /\ before.store[c] \ store[c] \subseteq deleted

\* C4 witness: such a pair of runs in which one document was deleted and a
\* document dated at the cutoff was kept.
C4_Witness ==
    /\ swpc = "done"
    /\ ~dry_run
    /\ errored = {}
    /\ before.ran
    /\ before.dry_run
    /\ before.errored = {}
    /\ before.retention_days = retention_days
    /\ before.at = startedAt
    /\ before.total = 1
    /\ Cardinality(deleted) = 1
    /\ \E c \in Collections : \E d \in store[c] : d.date + retention_days = startedAt

(***************************************************************************)
(* Claims about Fetch-with-Retry.                                          *)
(***************************************************************************)
\* The number of sleeps made after GET number k.
SleepsAfter(k) == Cardinality({i \in DOMAIN sleepLog : sleepLog[i] = k})

\* C5 (as claimed): for retries >= 1, a call whose every GET timed out has
\* made exactly `retries` GETs when it returns, returns None, and has slept
\* exactly retries - 1 times.
C5_TimeoutsSleepOneFewer ==
    (/\ fpc = "done"
     /\ retries >= 1
     /\ \A k \in DOMAIN hist : hist[k].kind = "timeout")
    => (/\ Len(hist) = retries
        /\ fresult = None
        /\ Len(sleepLog) = retries - 1
        /\ elapsed = (retries - 1) * retry_delay)

\* C6: a GET answered with 401, 403, 404 or 514 is the last GET of the call,
\* whatever `retries` is; when the call returns it returns None and exactly one
\* retry delay was slept after that GET.
C6_TerminalStatusStops ==
    \A k \in DOMAIN hist :
        (hist[k].kind = "status" /\ hist[k].status \in {401, 403, 404, 514}) =>
            /\ k = Len(hist)
            /\ fpc = "done" =>
                  /\ fresult = None
                  /\ SleepsAfter(k) = 1
                  /\ elapsed = Len(sleepLog) * retry_delay

\* C6 witness: a call with attempts left returned after a 404 and one sleep.
C6_Witness ==
    /\ fpc = "done"
    /\ retries >= 2
    /\ Len(hist) >= 1
    /\ Len(hist) < retries
    /\ hist[Len(hist)] = [kind |-> "status", status |-> 404]
    /\ SleepsAfter(Len(hist)) = 1

(***************************************************************************)
(* Claims about Dedup-and-Persist.                                         *)
(***************************************************************************)
\* The step in which the save_articles call of run r returns.
SaveStep(r) ==
    /\ runs[r].kind = "crawler"
    /\ runs[r].pc = "save"
    /\ runs'[r].pc = "finished"

\* C1 (as claimed): when save_articles writes an article under a url that
\* already has a stored document, the document afterwards is exactly the
\* article's document: every field the article does not carry is gone.
C1_SecondSaveReplaces ==
    [][\A r \in Runs : SaveStep(r) =>
          \A a \in wrote'[r] : \A d \in store[CrawlerCollection] :
             d.url = a.url =>
                \E e \in store'[CrawlerCollection] :
                   e = SetFields([BlankDoc EXCEPT !.id = d.id], a)]_vars

\* C1 (amended): when save_articles writes an article under a url that
\* already has a stored document, every field the article carries gets the
\* article's value and every other field keeps what the document held.
C1_SecondSaveMerges ==
    [][\A r \in Runs : SaveStep(r) =>
          \A a \in wrote'[r] : \A d \in store[CrawlerCollection] :
             d.url = a.url =>
                \E e \in store'[CrawlerCollection] :
                   /\ e.id = d.id
                   /\ \A f \in DOMAIN e :
                        e[f] = IF f \in DOMAIN a THEN a[f] ELSE d[f]]_vars

\* Two runs saved different articles under one url, the analysis stage wrote
\* to the document in between, and the document now has the second article's
\* content, analyzed = false and the analysis fields.
C1_Witness ==
    \E r1, r2 \in Runs : \E a1 \in wrote[r1], a2 \in wrote[r2] :
       \E d \in store[CrawlerCollection] :
          /\ r1 # r2
          /\ a1.url = d.url /\ a2.url = d.url
          /\ a1.content # a2.content
          /\ d.content = a2.content
          /\ d.analysis_raw # NoField
          /\ d.analyzed = FALSE

\* C2: in the collection of the crawler and in the collection of the
\* importer no two documents have the same url.
C2_OneDocumentPerUrl ==
    \A c \in {CrawlerCollection, FinnhubCollection} :
       \A d1, d2 \in store[c] : d1.url = d2.url => d1 = d2

\* Two finished runs or imports both wrote the same url and the collection
\* also holds a document of another url.
C2_Witness ==
    \E c \in {CrawlerCollection, FinnhubCollection} :
       \E r1, r2 \in Runs : \E a1 \in wrote[r1], a2 \in wrote[r2] :
          /\ r1 # r2
          /\ a1.url = a2.url
          /\ \E d \in store[c] : d.url = a1.url /\ d.source = a1.source
          /\ Cardinality(store[c]) = 2

\* The fields of a document that only a crawler writes.
CrawlFields == {"url", "title", "content", "source", "fetched_at"}

\* Run r is a finished crawler run whose existence check of u found nothing
\* and whose save wrote u.
CheckedAndSaved(r, u) ==
    /\ runs[r].kind = "crawler"
    /\ runs[r].pc = "finished"
    /\ u \in seen[r].absent
    /\ \E a \in wrote[r] : a.url = u

\* C8: when two crawler runs have both passed the existence check of u and
\* both saved u, then once both have finished the collection holds exactly
\* one document of u and it carries the article of the save that ran last.
C8_LastSaveWins ==
    \A u \in Urls : \A r1, r2 \in Runs :
       (r1 # r2 /\ CheckedAndSaved(r1, u) /\ CheckedAndSaved(r2, u)) =>
          LET ds == {d \in store[CrawlerCollection] : d.url = u}
          IN  /\ Cardinality(ds) = 1
              /\ \A d \in ds : \A f \in CrawlFields : d[f] = lastWritten[u][f]

\* Both runs passed the check and saved different bodies of u, and the
\* document has the body of the later save, which differs from the other.
C8_Witness ==
    \E u \in Urls : \E r1, r2 \in Runs :
       /\ r1 # r2 /\ CheckedAndSaved(r1, u) /\ CheckedAndSaved(r2, u)
       /\ \E a1 \in wrote[r1], d \in store[CrawlerCollection] :
            /\ a1.url = u /\ d.url = u
            /\ a1.content # lastWritten[u].content
            /\ d.content = lastWritten[u].content

\* C9 (as claimed): a run fetches a body only of a url that one of its
\* existence checks found absent, never after a check found it stored, and
\* it never writes the document of a url that a check of it found stored.
C9_StoredUrlIsLeftAlone ==
    \A r \in Runs : runs[r].kind = "crawler" =>
       /\ seen[r].fetched \subseteq seen[r].absent
       /\ seen[r].fetchedStored = {}
       /\ \A a \in wrote[r] : a.url \notin seen[r].stored

\* C9 (amended): a run fetches a body only of a url that one of its
\* existence checks found absent, never after a check found it stored, and
\* it writes only documents of urls whose body it fetched after such a check.
C9_FetchAndWriteOnlyAfterAbsentCheck ==
    \A r \in Runs : runs[r].kind = "crawler" =>
       /\ seen[r].fetched \subseteq seen[r].absent
       /\ seen[r].fetchedStored = {}
       /\ \A a \in wrote[r] : a.url \in seen[r].absent \cap seen[r].fetched

\* A run wrote the document of a url that one of its checks found absent and
\* a later one found stored.
C9_Witness ==
    \E r \in Runs : \E a \in wrote[r] :
       /\ runs[r].kind = "crawler"
       /\ a.url \in seen[r].absent
       /\ a.url \in seen[r].stored

(***************************************************************************)
(* Claims about the analysis stage.                                        *)
(***************************************************************************)
\* The stored document of an article of the batch.
StoredNow(article) == CHOOSE d \in store[asrc] : d.id = article.id

\* What the next get_unanalyzed_news of this source returns.
NextBatch == Range(GetUnanalyzedNews(store[asrc], alimit, amax_age))

\* analyze_news_article returned {}.
IsEmptyResult(result) == result.article_id = NoTime

\* The analysis of the article failed: every model failed (the raw analysis
\* is None), or analyze_news_article hit an error ({} or an error result).
AnalysisFailed(result) ==
    IsEmptyResult(result) \/ result.error # NoField \/ result.analysis_raw = None

C11_ErrorResultIsSavedAndSkipped ==
    apc = "alerts" =>
       \A i \in 1..Len(batch) : results[i].error # NoField =>
          LET d == StoredNow(batch[i])
          IN  /\ d.analyzed = TRUE
              /\ d.analysis_error = results[i].error
              /\ d.analyzed_at = results[i].analyzed_at
              /\ d.analysis_structured = batch[i].analysis_structured
              /\ d \notin NextBatch

MeetsAlertCondition(result) ==
    /\ result.error = NoField
    /\ result.analysis_structured.importance_score >= IMPORTANCE_THRESHOLD
    /\ \/ result.analysis_structured.sentiment_score >= POSITIVE_SENTIMENT_THRESHOLD
       \/ result.analysis_structured.sentiment_score <= NEGATIVE_SENTIMENT_THRESHOLD

\* C13: check_alerts_and_send_emails on one batch of results calls send_email
\* exactly once, with a digest that lists exactly the results that have no
\* error and meet the alert condition, when there is such a result, and does
\* not call it otherwise.
C13_OneDigestOfTheAlerts ==
    [][ apc = "alerts" /\ apc' = "idle" =>
          LET alerts == SelectSeq(results, MeetsAlertCondition)
          IN  IF alerts # <<>>
              THEN emails' = Append(emails, alerts)
              ELSE emails' = emails ]_vars

\* One digest was sent that lists one result, and the same pass stored the
\* analysis of another article, scored important but with a sentiment
\* between the thresholds, that the digest does not list.
C13_Witness ==
    /\ apc = "idle"
    /\ Len(emails) = 1
    /\ Len(emails[1]) = 1
    /\ \E d \in store[FinnhubCollection] :
         /\ d.id # emails[1][1].article_id
         /\ d.analyzed_at = emails[1][1].analyzed_at
         /\ d.analysis_structured.importance_score >= IMPORTANCE_THRESHOLD

(***************************************************************************)
(* Claims about extract_analysis_details.                                  *)
(***************************************************************************)
\* The positions of the lines of a text that carry the label.
LinesOf(text, kind) == {i \in 1..Len(text) : text[i].kind = kind}

\* The line of the text that carries the label, when there is one.
TheLine(text, kind) == text[CHOOSE i \in LinesOf(text, kind) : TRUE]

\* The item lines lie in a sector block: one start line, one end line after
\* it, and every item between the two.
HasSectorBlock(text) ==
    /\ Cardinality(LinesOf(text, "Affected_Sectors_Start")) = 1
    /\ Cardinality(LinesOf(text, "Affected_Sectors_End")) = 1
    /\ \A b \in LinesOf(text, "Affected_Sectors_Start"),
          e \in LinesOf(text, "Affected_Sectors_End") :
          b < e /\ \A i \in LinesOf(text, "-") : b < i /\ i < e

\* The text has no sector block and no item line.
HasNoSectorBlock(text) ==
    /\ LinesOf(text, "Affected_Sectors_Start") = {}
    /\ LinesOf(text, "Affected_Sectors_End") = {}
    /\ LinesOf(text, "-") = {}

\* A labeled response: one importance line, one sentiment line, the sector
\* block or none, and the summary as the only summary line and the last line.
IsLabeledResponse(text) ==
    /\ text # <<>>
    /\ Cardinality(LinesOf(text, "Importance_Score")) = 1
    /\ Cardinality(LinesOf(text, "Sentiment_Score")) <= 1
    /\ LinesOf(text, "Analysis_Summary") = {Len(text)}
    /\ HasSectorBlock(text) \/ HasNoSectorBlock(text)

\* The texts of the item lines of a text, in the order of the text.
ItemsInOrder(text) ==
    LET items == SelectSeq(text, LAMBDA l : l.kind = "-")
    IN  [i \in 1..Len(items) |-> items[i].text]

\* C14: extract_analysis_details returns for every text.  For a labeled
\* response it returns the number of the importance line, the number of the
\* sentiment line (0 without one), the items of the sector block in order
\* (none without a block) and the text of the summary line; for the labeled
\* example of the specification that is 8, 2, ["Tech: impact"] and "text";
\* for the empty text it returns 0, 0, no sectors and the empty summary.
C14_ExtractReturnsLabeledFields ==
    epc = "returned" =>
       /\ edetails # NoDetails
       /\ IsLabeledResponse(etext) =>
             /\ edetails.importance_score = TheLine(etext, "Importance_Score").value
             /\ edetails.sentiment_score =
                   IF LinesOf(etext, "Sentiment_Score") = {} THEN 0
                   ELSE TheLine(etext, "Sentiment_Score").value
             /\ edetails.sectors = ItemsInOrder(etext)
             /\ edetails.analysis_summary = Summary(TheLine(etext, "Analysis_Summary").text, <<>>)
       /\ etext = << ImportanceLine(8), SentimentLine(2), SectorsStart,
                     SectorItem("Tech: impact"), SectorsEnd, SummaryLine("text") >> =>
             edetails = [ importance_score |-> 8, sentiment_score |-> 2,
                          sectors |-> <<"Tech: impact">>,
                          analysis_summary |-> Summary("text", <<>>) ]
       /\ etext = <<>> =>
             edetails = [ importance_score |-> 0, sentiment_score |-> 0,
                          sectors |-> <<>>, analysis_summary |-> Summary("", <<>>) ]

\* extract_analysis_details has returned the two items of a labeled response
\* with a sector block of two items.
C14_Witness ==
    /\ epc = "returned"
    /\ IsLabeledResponse(etext)
    /\ HasSectorBlock(etext)
    /\ edetails.sectors = <<"Tech: impact", "Energy: cost">>
    /\ edetails.importance_score = 8

\* The scores of an analysis_structured lie in 0..10.
ScoresInRange(details) ==
    /\ details.importance_score \in 0..10
    /\ details.sentiment_score \in 0..10

\* C15 (as claimed): every analysis result of the pipeline that carries an
\* analysis_structured, and every analysis_structured stored on an article,
\* has its importance score and its sentiment score in 0..10.
C15_ScoresWithinZeroToTen ==
    /\ \A i \in 1..Len(results) :
          results[i].analysis_structured # NoDetails =>
             ScoresInRange(results[i].analysis_structured)
    /\ \A c \in Collections : \A d \in store[c] :
          d.analysis_structured # NoDetails => ScoresInRange(d.analysis_structured)

(***************************************************************************)
(* The sweep under storage errors.                                         *)
(***************************************************************************)
\* The collections listed after a collection whose pass raised.
ListedAfterAnError ==
    {COLLECTIONS_TO_CLEAN[j] : j \in {k \in 1..Len(COLLECTIONS_TO_CLEAN) :
         \E i \in 1..(k - 1) : COLLECTIONS_TO_CLEAN[i] \in errored}}

\* C16: when the sweep is over, every collection listed after one whose
\* count or delete raised, and that did not raise itself, has been counted
\* (its count is the number of its documents older than the retention period)
\* and, in a run that is not a dry run, holds none of those documents any more
\* while keeping all its others.
C16_ErrorDoesNotStopTheSweep ==
    swpc = "done" =>
       \A c \in ListedAfterAnError \ errored :
          /\ reported[c] = Cardinality(OlderThanRetention(startStore[c]))
          /\ ~dry_run =>
                /\ store[c] = startStore[c] \ OlderThanRetention(startStore[c])
                /\ OlderThanRetention(startStore[c]) \subseteq deleted
          /\ dry_run => store[c] = startStore[c]

\* A sweep that deletes is over: the pass of the first collection raised, and
\* a document of a later collection was counted and deleted.
C16_Witness ==
    /\ swpc = "done"
    /\ ~dry_run
    /\ COLLECTIONS_TO_CLEAN[1] \in errored
    /\ \E c \in ListedAfterAnError \ errored :
         /\ reported[c] = 1
         /\ startStore[c] \ store[c] # {}

(***************************************************************************)
(* A crawler run after a run whose storage write failed.                   *)
(***************************************************************************)
\* The run of the slot went through its whole list and its bulk write did
\* not apply every operation.
SaveFailed(r) ==
    /\ runs[r].kind = "crawler"
    /\ runs[r].pc = "finished"
    /\ runs[r].idx > Len(runs[r].news_items)
    /\ wrote[r] # Range(runs[r].articles_to_save)

\* The urls of the articles the failed write of the run did not write, and
\* that no other run but `next` has written.
LeftUnwritten(r, next) ==
    {u \in UrlsOf(runs[r].articles_to_save) :
        \A q \in Runs \ {next} : \A a \in wrote[q] : a.url # u}

\* C17: a run whose bulk write failed ends without a second write, so the
\* articles it did not write are stored only if another run writes them; and
\* a run of the same adapter that starts after it and has gone through its
\* list has found every such url that its list names absent from the storage
\* and has asked for its body, and, when it got the body and reached its
\* save_articles, has submitted the article.
C17_NextRunTakesUnwrittenUrlsAgain ==
    \A r \in Runs : SaveFailed(r) =>
       /\ \A u \in UrlsOf(runs[r].articles_to_save) :
             (\E d \in store[CrawlerCollection] : d.url = u) =>
                \E q \in Runs : \E a \in wrote[q] : a.url = u
       /\ \A next \in Runs :
             (/\ r \in runs[next].after
              /\ runs[next].kind = "crawler"
              /\ runs[next].idx > Len(runs[next].news_items))
             => \A u \in LeftUnwritten(r, next) \cap UrlsOf(runs[next].news_items) :
                   /\ u \in seen[next].absent
                   /\ u \in seen[next].fetched
                   /\ (u \in seen[next].gotBody /\ runs[next].pc = "finished")
                         => u \in seen[next].submitted

\* The bulk write of a run wrote nothing of its article of u1; the next run
\* found u1 absent, fetched its body, submitted it, and its write stored it.
C17_Witness ==
    \E r, next \in Runs :
       /\ SaveFailed(r)
       /\ wrote[r] = {}
       /\ r \in runs[next].after
       /\ runs[next].pc = "finished"
       /\ "u1" \in LeftUnwritten(r, next)
       /\ "u1" \in seen[next].absent \cap seen[next].fetched
       /\ "u1" \in seen[next].submitted
       /\ \E a \in wrote[next] : a.url = "u1"

(***************************************************************************)
(* The orchestrator when an adapter hangs, and the --limit argument.       *)
(***************************************************************************)
\* The next step of the task of an adapter.
AdapterStep(b) ==
    \/ OrchConstruct(b)
    \/ OrchFetchList(b)
    \/ OrchMarketRun(b)
    \/ OrchFetchBody(b)
    \/ OrchClose(b)

\* C18 (as claimed): no adapter gets past its first await before every
\* adapter was started; main() reports completion only when every task has
\* ended; and while main() waits, an adapter that is in its run or about to
\* close can take its next step whatever the other adapters do, one that
\* never finishes included.
C18_HangingAdapterBlocksNoOne ==
    /\ \A a \in Adapters :
          opc[a] \in {"bodies", "blocked", "closing", "failed"} =>
             \A b \in Adapters : opc[b] # "pending"
    /\ mainpc = "completed" => \A a \in Adapters : opc[a] = "done"
    /\ \A b \in Adapters :
          (mainpc = "gather" /\ opc[b] \in {"bodies", "closing"}) =>
             ENABLED AdapterStep(b)

\* C19 (as claimed): every adapter of the invocation has asked for at most
\* args.limit article bodies and persisted at most args.limit records.
C19_EveryAdapterKeepsToTheLimit ==
    \A a \in Adapters : bodies[a] <= olimit /\ persisted[a] <= olimit

\* C19 (amended): every article crawler has asked for at most args.limit
\* article bodies, got at most as many and persisted at most as many
\* records; the market data crawler asks for no article body, and the number
\* of records it persists is the number of rows of the page, not bounded by
\* args.limit.
C19_ArticleCrawlersKeepToTheLimit ==
    \A a \in Adapters :
       IF CrawlerClass(a) = "BaseCrawler"
       THEN /\ todo[a] <= olimit
            /\ bodies[a] <= olimit
            /\ fetched[a] <= bodies[a]
            /\ persisted[a] <= fetched[a]
       ELSE /\ bodies[a] = 0
            /\ fetched[a] = 0
            /\ persisted[a] <= MaxRecords

\* An invocation with limit 1 completed in which an article crawler fetched
\* and persisted one article and the market data crawler persisted more
\* records than the limit.
C19_Witness ==
    /\ mainpc = "completed"
    /\ olimit = 1
    /\ \E a \in Adapters :
         /\ CrawlerClass(a) = "BaseCrawler"
         /\ bodies[a] = 1
         /\ persisted[a] = 1
    /\ \E a \in Adapters :
         /\ CrawlerClass(a) = "EastmoneyMarketCrawler"
         /\ persisted[a] > olimit

(***************************************************************************)
(* The analyzer and its credentials.                                       *)
(***************************************************************************)
\* A required credential is missing from the environment.
CredentialMissing == ~acreds.llm \/ ~acreds.finance \/ ~acreds.email

\* C20 (as claimed): with a required credential missing the analyzer does
\* not get past its construction: no query for unanalyzed articles, no
\* analysis, no save and no alert step runs.
C20_MissingCredentialStopsTheAnalyzer ==
    CredentialMissing =>
       /\ apc = "new"
       /\ batch = <<>>
       /\ results = <<>>

(***************************************************************************)
(* Claims about the retries of Fetch-with-Retry.                           *)
(***************************************************************************)
\* A failed GET the except clauses do not break on.
Retryable(o) ==
    \/ o.kind \in {"timeout", "request_error", "exception"}
    \/ o.kind = "status" /\ o.status \notin {401, 403, 404, 514}

\* C21: after a failed GET number k that is a timeout, a request error, an
\* HTTP error status outside {401, 403, 404, 514} or an unexpected exception,
\* with k < retries, the call sleeps one retry delay and then makes GET
\* number k + 1: the failure does not end the call.
C21_RetryableFailureIsRetried ==
    \A k \in 1..MaxRetries :
        (Len(hist) = k /\ Retryable(hist[k]) /\ k < retries)
            ~> (Len(hist) = k + 1 /\ SleepsAfter(k) = 1
                /\ elapsed = k * retry_delay)

\* C21 witness: a second GET was made after a 500 and one sleep.
C21_Witness ==
    /\ Len(hist) = 2
    /\ hist[1] = [kind |-> "status", status |-> 500]
    /\ SleepsAfter(1) = 1
    /\ retries = 3

\* The number of the first GET that succeeded, 0 when none did.
FirstSuccess ==
    IF \E k \in DOMAIN hist : hist[k].kind = "ok"
      THEN CHOOSE k \in DOMAIN hist :
               hist[k].kind = "ok" /\ \A j \in 1..(k - 1) : hist[j].kind # "ok"
      ELSE 0

\* What C22 says of every state of a call.
AttemptsAreBounded ==
    /\ Len(hist) <= retries
    /\ FirstSuccess # 0 =>
          /\ FirstSuccess = Len(hist)
          /\ fpc = "done"
          /\ fresult = ParsedPage
          /\ Len(sleepLog) = FirstSuccess - 1
          /\ elapsed = (FirstSuccess - 1) * retry_delay
    /\ fresult = None => FirstSuccess = 0

\* C22: whatever the GETs end in, the call returns after at most `retries`
\* GETs; when GET number k is the first to succeed the call returns the
\* parsed page after exactly k GETs and k - 1 sleeps and makes no GET after
\* it; None is returned only when no GET succeeded.
C22_ReturnsWithinMaxAttempts ==
    /\ []AttemptsAreBounded
    /\ <>(fpc = "done")

\* C22 witness: the third GET was the first to succeed and the call returned.
C22_Witness ==
    /\ fpc = "done"
    /\ retries = 3
    /\ FirstSuccess = 3
    /\ Len(sleepLog) = 2
    /\ fresult = ParsedPage

(***************************************************************************)
(* The order of the steps of a crawler run.                                *)
(***************************************************************************)
\* Run r made an existence check in this step.
ChecksExistence(r) ==
    seen'[r].absent \cup seen'[r].stored # seen[r].absent \cup seen[r].stored

\* Run r got the return of a body fetch in this step.
FetchesBody(r) == runs[r].pc = "fetch" /\ runs'[r].pc # "fetch"

\* Run r called save_articles in this step.
CallsSaveArticles(r) == seen'[r].submitted # seen[r].submitted

\* What C23 says of every step of run r.
RunKeepsTheOrder(r) ==
    /\ runs'[r].news_items # runs[r].news_items =>
          runs[r].pc = "idle" /\ seen[r] = SeenNothing
    /\ ChecksExistence(r) \/ FetchesBody(r) =>
          /\ runs[r].pc \in {"loop", "fetch"}
          /\ runs[r].idx \in 1..Len(runs[r].news_items)
          /\ seen[r].submitted = {}
          /\ wrote[r] = {}
    /\ CallsSaveArticles(r) \/ wrote'[r] # wrote[r] =>
          /\ runs[r].pc = "save" /\ runs'[r].pc = "finished"
          /\ runs[r].idx > Len(runs[r].news_items)
          /\ seen[r].submitted = {} /\ wrote[r] = {}
          /\ seen[r].gotBody # {}
    /\ store'[CrawlerCollection] # store[CrawlerCollection] =>
          \/ asrc = CrawlerCollection /\ apc = "save"
          \/ \E q \in Runs : runs[q].kind = "crawler" /\ wrote'[q] # wrote[q]
    /\ runs'[r].pc = "finished" /\ (runs'[r].news_items = <<>> \/ seen'[r].gotBody = {}) =>
          /\ seen'[r].submitted = {} /\ wrote'[r] = {}
          /\ runs[r].pc # "finished" /\ apc # "save" => UNCHANGED store

\* C23: a crawler run fetches the list once, before any existence check;
\* it checks and fetches item by item; it calls save_articles at most once,
\* after the last body fetch; a run whose list is empty or that got no body
\* ends without a write to the storage.
C23_RunKeepsFetchCheckPersistOrder ==
    [][\A r \in Runs : runs'[r].kind = "crawler" => RunKeepsTheOrder(r)]_vars

\* C23 witness: a run listed two items, fetched their bodies and then wrote
\* them; another run ended on an empty list.
C23_Witness ==
    \E r, q \in Runs :
        /\ runs[r].kind = "crawler" /\ runs[r].pc = "finished"
        /\ Len(runs[r].news_items) = 2
        /\ Cardinality(seen[r].gotBody) = 2
        /\ Cardinality(wrote[r]) = 2
        /\ runs[q].kind = "crawler" /\ runs[q].pc = "finished"
        /\ runs[q].news_items = <<>> /\ runs[q].idx = 1
        /\ wrote[q] = {}

(***************************************************************************)
(* The release of an adapter's resources.                                  *)
(***************************************************************************)
\* The task of adapter a has ended after a successful construction.
RanAndEnded(a) == opc[a] \in {"done", "failed"} /\ raisedAt[a] # "construct"

\* C24 (as claimed): an adapter whose construction succeeded gets exactly one
\* call of close(), made after its run has ended, whether the run returned
\* or raised; no close() is called on an adapter before its run has ended.
C24_ClosedOnceAfterTheRun ==
    \A a \in Adapters :
        /\ \A i \in DOMAIN closes[a] : closes[a][i] = "after_run"
        /\ Len(closes[a]) <= 1
        /\ RanAndEnded(a) => closes[a] = <<"after_run">>

(***************************************************************************)
(* Claims about send_query_to_first_available_model.                       *)
(***************************************************************************)
\* The model's type is supported and the client of that type was given.
IsAvailable(model) ==
    \/ model.type = "studio_via_genai" /\ studio_client
    \/ model.type = "vertex_via_genai" /\ vertex_client

\* Some call made so far succeeded.
SomeModelSucceeded == \E j \in DOMAIN calls : calls[j].ok

\* C25: the models are tried in configuration order; a model whose type is
\* unsupported or whose client is missing is passed over without a call; the
\* key and text of the first model that succeeds are returned and no model
\* is called after it; None is returned exactly when no model succeeded.
C25_FirstAvailableModelAnswers ==
    /\ \A j \in DOMAIN calls :
          /\ calls[j].index \in DOMAIN models_config
          /\ calls[j].key = models_config[calls[j].index].key
          /\ IsAvailable(models_config[calls[j].index])
          /\ \A k \in DOMAIN calls : j < k => calls[j].index < calls[k].index
          /\ calls[j].ok =>
                /\ j = Len(calls)
                /\ llm_output = [returned |-> TRUE, key |-> calls[j].key,
                                 text |-> calls[j].text]
    /\ \A i \in DOMAIN models_config :
          (i < model_index /\ IsAvailable(models_config[i])) =>
              \E j \in DOMAIN calls : calls[j].index = i
    /\ llm_output.returned =>
          /\ llm_output.key = None <=> ~SomeModelSucceeded
          /\ llm_output.key = None => model_index > Len(models_config)
    /\ qpc = "returned" <=> llm_output.returned

\* C25 witness: the first model has an unsupported type, the second has no
\* client, the third was called and answered; its key and text were returned.
C25_Witness ==
    /\ llm_output.returned
    /\ Len(models_config) = 3
    /\ models_config[1].type = "openai"
    /\ models_config[2].type = "vertex_via_genai" /\ ~vertex_client
    /\ Len(calls) = 1
    /\ calls[1].index = 3
    /\ llm_output = [returned |-> TRUE, key |-> ModelKeys[3], text |-> "response_8_2"]

(***************************************************************************)
(* A crawler run that raises inside its loop.                              *)
(***************************************************************************)
\* Run r ended by an exception of an existence check, of a body fetch or of
\* building an article: it returned before its loop had passed the last item.
RaisedInLoop(r) ==
    /\ runs[r].kind = "crawler"
    /\ runs[r].pc = "finished"
    /\ runs[r].idx \in 1..Len(runs[r].news_items)

\* C26: a crawler run in which a step raises after bodies were fetched
\* persists none of the articles it fetched: it makes no write, the step that
\* raises leaves the storage as it is, and the run ends as a returned run
\* does (the exception is caught in run).
C26_RaisingRunPersistsNothing ==
    [][\A r \in Runs :
          (RaisedInLoop(r)' /\ seen'[r].gotBody # {}) =>
              /\ wrote'[r] = {}
              /\ seen'[r].submitted = {}
              /\ runs'[r].articles_to_save # <<>>
              /\ ~RaisedInLoop(r) =>
                    /\ runs[r].pc \in {"loop", "fetch"}
                    /\ UNCHANGED <<store, nextId, lastWritten>>]_vars

\* C26 witness: a run fetched the body of its first item, raised on the second
\* item and wrote nothing.
C26_Witness ==
    \E r \in Runs :
        /\ RaisedInLoop(r)
        /\ runs[r].idx = 2
        /\ Len(runs[r].articles_to_save) = 1
        /\ wrote[r] = {}
        /\ \A d \in store[CrawlerCollection] : d.url # runs[r].articles_to_save[1].url

(***************************************************************************)
(* Analyzed documents under later crawler writes.                          *)
(***************************************************************************)
\* Document e is document d with its analysis intact: analyzed still set,
\* no analysis field removed, and the content the analysis was made of.
KeepsItsAnalysis(d, e) ==
    /\ e.id = d.id
    /\ e.analyzed
    /\ d.analysis_raw # NoField => e.analysis_raw # NoField
    /\ d.analysis_structured # NoDetails => e.analysis_structured # NoDetails
    /\ d.analysis_error # NoField => e.analysis_error # NoField
    /\ d.analyzed_at # NoTime => e.analyzed_at # NoTime
    /\ e.content = d.content

\* C27 (as claimed): however crawler runs and analyzer runs on the same
\* collection interleave, a document that has analyzed = true keeps it, keeps
\* its analysis fields, and keeps the content it had: no later crawl write
\* puts other content next to the analysis.
C27_AnalyzedDocumentIsNotOverwritten ==
    [][\A d \in store[CrawlerCollection] :
          d.analyzed => \E e \in store'[CrawlerCollection] : KeepsItsAnalysis(d, e)]_vars

(***************************************************************************)
(* Running an adapter a second time.                                       *)
(***************************************************************************)
\* The first of the two runs has ended.
FirstRunOver == runs[1].kind # "none" /\ runs[1].pc = "finished"

\* C28 (as claimed): for every adapter of AVAILABLE_CRAWLERS, a second run in
\* sequence against an unchanged source leaves the stored documents as the
\* first run left them: it adds no document and changes no stored field.
C28_SecondRunChangesNothing ==
    [][FirstRunOver => store' = store]_vars

(***************************************************************************)
(* The sweep and the articles of the crawlers and of the importer.         *)
(***************************************************************************)
\* The documents of a collection fetched before now - retention_days.
FetchedBeforeCutoff(docs) ==
    {d \in docs : d.fetched_at # NoTime /\ d.fetched_at < cutoff_date}

\* C29 (as claimed): after a non-dry-run sweep that met no error, no article
\* a crawler or the Finnhub importer wrote, with fetched_at older than
\* now - retention_days, remains in the collection its source writes to.
C29_NoOldArticleRemains ==
    (swpc = "done" /\ ~dry_run /\ errored = {}) =>
        /\ FetchedBeforeCutoff(store[CrawlerCollection]) = {}
        /\ FetchedBeforeCutoff(store[FinnhubCollection]) = {}

(***************************************************************************)
(* Alerts over several pipeline runs.                                      *)
(***************************************************************************)
\* The articles digest number i names.
AlertedIn(i) == {emails[i][k].article_id : k \in DOMAIN emails[i]}

\* The stored document of an article is marked analyzed.
PersistedAnalyzed(id) ==
    \E c \in AnalysisSources : \E d \in store[c] : d.id = id /\ d.analyzed

\* C30 (as claimed): over the pipeline runs, runs whose save_analysis fails
\* included, no article is named by two digest emails, and an article is
\* named by a digest only when the run that sent it has stored
\* analyzed = true for the article.
C30_OneAlertPerArticle ==
    /\ \A i, j \in DOMAIN emails : i # j => AlertedIn(i) \cap AlertedIn(j) = {}
    /\ \A i \in DOMAIN emails : \A id \in AlertedIn(i) : PersistedAnalyzed(id)

====
